---- MODULE Spec2Model ----
(***************************************************************************)
(* Order store, order coordinator, fan-out notifier and session admission  *)
(* control of the muta order-tracking backend, with the dashboard client's *)
(* socket handlers.                                                        *)
(*                                                                         *)
(* Every coordinator call is one action: the store is an in-memory Map and *)
(* every awaited promise is already resolved, so a call's continuation     *)
(* chain runs in the microtask queue of the I/O callback that started it   *)
(* and completes before the next I/O callback is dispatched.               *)
(***************************************************************************)
EXTENDS Integers, Sequences, FiniteSets, TLC

VARIABLES
    orders,       \* InMemoryOrderRepository.orders, a Map in insertion order
    now,          \* the wall clock read by new Date() / Date.now(), in ms
    lastError,    \* OrderService.lastError, <<>> while undefined
    lastCall,     \* outcome of the latest coordinator call, as its caller sees it
    config,       \* the validated environment: apiKey, nodeEnv, corsOrigin,
                  \* pingTimeout, pingInterval
    sockets,      \* server-side state of every connected socket, by socket id
    socketOf,     \* the socket id each client is connected with, 0 for none
    nextSid,      \* the id the next accepted socket gets
    connectedClients, \* keys of SocketIONotificationService.connectedClients
    monitorConns, \* keys of connectionMonitor.connections
    room,         \* socket ids joined to the 'orders' room
    wire,         \* per connected socket, the types of the messages sent to it
    clientOrders, \* per client, the orders state of its useSocket hook
    lastAck,      \* the acknowledgment of the latest connect attempt or message
    lastRead,     \* the latest read request and, once answered, its result
    heartbeat,    \* per connected socket, the timers of setupHeartbeat
    probes,       \* per connected socket, when each ping it has not answered was sent
    closed,       \* per socket id that was disconnected, what disconnected it
    lastSweep,    \* what the latest connectionMonitor.cleanup did
    tasks,        \* the microtask queue: continuations of coordinator calls in flight
    emitted,      \* the messages the stepwise coordinator calls handed to io.emit
    applied       \* the mutations the stepwise coordinator calls made, in order

storeVars == <<orders, lastError, lastCall>>
sessVars == <<sockets, socketOf, nextSid, connectedClients, monitorConns, room, lastAck>>
wireVars == <<wire, clientOrders>>
liveVars == <<heartbeat, probes, closed, lastSweep>>
taskVars == <<tasks, emitted, applied>>
vars == <<orders, now, lastError, lastCall, config, sockets, socketOf, nextSid,
          connectedClients, monitorConns, room, wire, clientOrders, lastAck,
          lastRead, heartbeat, probes, closed, lastSweep, tasks, emitted, applied>>

(***************************************************************************)
(* Bounds of the model                                                     *)
(***************************************************************************)
MaxIds == 2          \* how many distinct order ids generateOrderId can yield
MaxClock == 1        \* ticks of the clock in the store specification
MaxBulk == 2         \* longest list handed to a bulk operation
MaxClients == 2      \* dashboard clients
MaxSockets == 2      \* sockets accepted over a run
MaxEvents == 2       \* longest stream of server messages a socket is sent
MaxMsgs == 2         \* messages per socket in the fan-out specification
MaxRateTicks == 12   \* half-windows of clock in the admission specification
MaxHealthTicks == 13 \* clock steps in the health specification
MaxHbTicks == 18     \* clock steps in the heartbeat specification
MaxSweepTicks == 3   \* block durations of clock, per day, in the sweep specification
MaxCalls == 4        \* coordinator calls in flight or applied, in the overlap specification

(***************************************************************************)
(* Orders                                                                  *)
(***************************************************************************)
OrderStatus == {"pending", "in-route", "in-progress", "completed", "cancelled"}

OrderFields == {"id", "address", "status", "collectorName", "lastUpdated"}

\* ids generateOrderId can return; "" is the falsy id the coordinator rejects
OrderIds == {<<"ORD", i>> : i \in 1..MaxIds}
NoId == <<>>

StatusInputs == {"pending", "completed"}

Order(id, address, status, collectorName, lastUpdated) ==
    [id |-> id, address |-> address, status |-> status,
     collectorName |-> collectorName, lastUpdated |-> lastUpdated]

\* the body of POST /orders: Omit<Order, 'id' | 'lastUpdated'>
OrderDataInputs ==
    {[address |-> "Main St", status |-> s, collectorName |-> "Juan"] :
        s \in StatusInputs}

\* Partial<Order>: the keys that are present and their values
UpdateKeyInputs ==
    {{}, {"status"}, {"address", "collectorName"}, {"id", "status"}, {"lastUpdated"}}

\* the values an update carries for the keys it names
UpdateVals == Order(<<"ORD", 0>>, "Oak Ave", "completed", "Ana", 0)

UpdateDataInputs == {[keys |-> k, vals |-> UpdateVals] : k \in UpdateKeyInputs}

\* lists of at most MaxBulk elements of S, the empty list included
BulkLists(S) == UNION {[1..n -> S] : n \in 0..MaxBulk}

\* bodies of the bulk endpoints
BulkCreateInputs == {[address |-> "Main St", status |-> "pending", collectorName |-> "Juan"]}

BulkUpdateInputs ==
    {[keys |-> {"status"}, vals |-> UpdateVals]}

(***************************************************************************)
(* Map<string, Order>: a sequence of orders in insertion order             *)
(***************************************************************************)
MapHas(store, id) == \E i \in 1..Len(store) : store[i].id = id

MapIndex(store, id) == CHOOSE i \in 1..Len(store) : store[i].id = id

\* Map.get(id) || null, as a sequence of zero or one order
MapGet(store, id) ==
    IF MapHas(store, id) THEN <<store[MapIndex(store, id)]>> ELSE <<>>

\* Map.set(key, value): replaces in place, or appends a new key
MapSet(store, id, order) ==
    IF MapHas(store, id)
    THEN [store EXCEPT ![MapIndex(store, id)] = order]
    ELSE Append(store, order)

\* Map.delete(key)
MapDelete(store, id) ==
    IF MapHas(store, id)
    THEN LET k == MapIndex(store, id)
         IN  SubSeq(store, 1, k - 1) \o SubSeq(store, k + 1, Len(store))
    ELSE store

(***************************************************************************)
(* InMemoryOrderRepository                                                 *)
(***************************************************************************)
\* create without the has(id) guard: Map.set overwrites the stored order
RepoCreate_NoDuplicateCheck(store, order, t) ==
    LET newOrder == [order EXCEPT !.lastUpdated = t]
    IN  [threw |-> FALSE, store |-> MapSet(store, order.id, newOrder),
         ret |-> <<newOrder>>]

\* create: throws when the id is present, else stores a copy stamped now
RepoCreate(store, order, t) ==
    IF MapHas(store, order.id)
    THEN [threw |-> TRUE, store |-> store, ret |-> <<>>]
    ELSE LET newOrder == [order EXCEPT !.lastUpdated = t]
         IN  [threw |-> FALSE, store |-> MapSet(store, order.id, newOrder),
              ret |-> <<newOrder>>]

RepoFindById(store, id) == MapGet(store, id)

\* the merge without the "id: existingOrder.id" line: {...existingOrder, ...updateData}
MergeOrder_IdFromUpdate(existing, updateData, t) ==
    LET pick(f) == IF f \in updateData.keys THEN updateData.vals[f] ELSE existing[f]
    IN  Order(pick("id"), pick("address"), pick("status"),
              pick("collectorName"), t)

\* {...existingOrder, ...updateData, id: existingOrder.id, lastUpdated: new Date()}
MergeOrder(existing, updateData, t) ==
    LET pick(f) == IF f \in updateData.keys THEN updateData.vals[f] ELSE existing[f]
    IN  Order(existing.id, pick("address"), pick("status"),
              pick("collectorName"), t)

\* update storing the given fields as a new order when the id is absent
RepoUpdate_Upsert(store, id, updateData, t) ==
    LET existing == IF MapHas(store, id) THEN store[MapIndex(store, id)]
                    ELSE Order(id, "", "pending", "", t)
        updatedOrder == MergeOrder(existing, updateData, t)
    IN  [store |-> MapSet(store, id, updatedOrder), ret |-> <<updatedOrder>>]

\* update: null for an absent id, else the merged order, stored under id
RepoUpdate(store, id, updateData, t) ==
    IF ~MapHas(store, id)
    THEN [store |-> store, ret |-> <<>>]
    ELSE LET updatedOrder == MergeOrder(store[MapIndex(store, id)], updateData, t)
         IN  [store |-> MapSet(store, id, updatedOrder), ret |-> <<updatedOrder>>]

\* delete: whether the id existed
RepoDelete(store, id) ==
    [store |-> MapDelete(store, id), existed |-> MapHas(store, id)]

\* createMany giving up at the first order create rejects
RECURSIVE RepoCreateMany_StopAtFirstFailure(_, _, _)
RepoCreateMany_StopAtFirstFailure(store, list, t) ==
    IF list = <<>>
    THEN [store |-> store, ret |-> <<>>]
    ELSE LET created == RepoCreate(store, Head(list), t)
             rest == RepoCreateMany_StopAtFirstFailure(created.store, Tail(list), t)
         IN  IF created.threw THEN [store |-> store, ret |-> <<>>]
             ELSE [store |-> rest.store, ret |-> created.ret \o rest.ret]

\* createMany: creates each order in turn, skipping the ones create rejects
RECURSIVE RepoCreateMany(_, _, _)
RepoCreateMany(store, list, t) ==
    IF list = <<>>
    THEN [store |-> store, ret |-> <<>>]
    ELSE LET created == RepoCreate(store, Head(list), t)
             rest == RepoCreateMany(created.store, Tail(list), t)
         IN  [store |-> rest.store, ret |-> created.ret \o rest.ret]

\* updateMany: updates each {id, data} in turn, skipping absent ids
RECURSIVE RepoUpdateMany(_, _, _)
RepoUpdateMany(store, updates, t) ==
    IF updates = <<>>
    THEN [store |-> store, ret |-> <<>>]
    ELSE LET updated == RepoUpdate(store, Head(updates).id, Head(updates).data, t)
             rest == RepoUpdateMany(updated.store, Tail(updates), t)
         IN  [store |-> rest.store, ret |-> updated.ret \o rest.ret]

\* deleteMany: deletes each id in turn and counts the ones that existed
RECURSIVE RepoDeleteMany(_, _)
RepoDeleteMany(store, ids) ==
    IF ids = <<>>
    THEN [store |-> store, count |-> 0]
    ELSE LET deleted == RepoDelete(store, Head(ids))
             rest == RepoDeleteMany(deleted.store, Tail(ids))
         IN  [store |-> rest.store,
              count |-> (IF deleted.existed THEN 1 ELSE 0) + rest.count]

(***************************************************************************)
(* SocketIONotificationService: notifyOrder* build the message handed to   *)
(* broadcast                                                               *)
(***************************************************************************)
WsMessage(type, order) == [type |-> type, data |-> order]

NotifyOrderCreated(order) == WsMessage("order-created", order)
\* the update notification under the event name the API index advertises
NotifyOrderUpdated_WrongKind(order) == WsMessage("order-updated", order)

NotifyOrderUpdated(order) == WsMessage("order-update", order)
NotifyOrderDeleted(order) == WsMessage("order-deleted", order)

(***************************************************************************)
(* OrderService                                                            *)
(***************************************************************************)
\* handleError: remembers when the latest failure happened (the message text
\* is not modelled)
HandleError(t) == <<[timestamp |-> t]>>

\* What a coordinator call did, as its caller and the notifier see it:
\*   threw    the returned promise rejected
\*   ret      the orders it resolved to (<<>> for null), retBool for
\*            deleteOrder, count for deleteMultipleOrders
\*   mutated  the call executed Map.set / Map.delete on the store
\*   stored   the order the repository handed back to the coordinator
\*   notified the messages handed to the notifier's broadcast
\*   list     the list a bulk operation was called with
CallResult(op, id, keys, threw, ret, retBool, mutated, stored, notified) ==
    [op |-> op, id |-> id, keys |-> keys, threw |-> threw, ret |-> ret,
     retBool |-> retBool, count |-> 0, mutated |-> mutated, stored |-> stored,
     notified |-> notified, list |-> <<>>]

\* createOrder: what the call does to the store, the notifier and lastError;
\* emitFails says whether io.emit throws inside broadcast
CreateOrderCall(store, err, id, orderData, t, emitFails) ==
    LET order == Order(id, orderData.address, orderData.status,
                       orderData.collectorName, t)
        created == RepoCreate(store, order, t)
    IN  IF created.threw
        THEN [store |-> store, sent |-> <<>>, lastError |-> HandleError(t),
              call |-> CallResult("createOrder", id, {}, TRUE, <<>>, FALSE,
                                  FALSE, <<>>, <<>>)]
        ELSE LET msg == NotifyOrderCreated(created.ret[1])
             IN  IF emitFails
                 THEN [store |-> created.store, sent |-> <<>>,
                       lastError |-> HandleError(t),
                       call |-> CallResult("createOrder", id, {}, TRUE, <<>>, FALSE,
                                           TRUE, created.ret, <<msg>>)]
                 ELSE [store |-> created.store, sent |-> <<msg>>,
                       lastError |-> err,
                       call |-> CallResult("createOrder", id, {}, FALSE, created.ret,
                                           FALSE, TRUE, created.ret, <<msg>>)]

\* updateOrder: rejects a falsy id and an empty update before touching the store
UpdateOrderCall(store, err, id, updateData, t, emitFails) ==
    IF id = NoId \/ updateData.keys = {}
    THEN [store |-> store, sent |-> <<>>, lastError |-> HandleError(t),
          call |-> CallResult("updateOrder", id, updateData.keys, TRUE, <<>>, FALSE,
                              FALSE, <<>>, <<>>)]
    ELSE LET updated == RepoUpdate(store, id, updateData, t)
         IN  IF updated.ret = <<>>
             THEN [store |-> updated.store, sent |-> <<>>, lastError |-> err,
                   call |-> CallResult("updateOrder", id, updateData.keys, FALSE,
                                       <<>>, FALSE, FALSE, <<>>, <<>>)]
             ELSE LET msg == NotifyOrderUpdated(updated.ret[1])
                  IN  IF emitFails
                      THEN [store |-> updated.store, sent |-> <<>>,
                            lastError |-> HandleError(t),
                            call |-> CallResult("updateOrder", id, updateData.keys,
                                                TRUE, <<>>, FALSE, TRUE, updated.ret,
                                                <<msg>>)]
                      ELSE [store |-> updated.store, sent |-> <<msg>>,
                            lastError |-> err,
                            call |-> CallResult("updateOrder", id, updateData.keys,
                                                FALSE, updated.ret, FALSE, TRUE,
                                                updated.ret, <<msg>>)]

\* deleteOrder: looks the order up first, so that the notification can carry it
DeleteOrderCall(store, err, id, t, emitFails) ==
    IF id = NoId
    THEN [store |-> store, sent |-> <<>>, lastError |-> HandleError(t),
          call |-> CallResult("deleteOrder", id, {}, TRUE, <<>>, FALSE,
                              FALSE, <<>>, <<>>)]
    ELSE LET order == RepoFindById(store, id)
         IN  IF order = <<>>
             THEN [store |-> store, sent |-> <<>>, lastError |-> err,
                   call |-> CallResult("deleteOrder", id, {}, FALSE, <<>>, FALSE,
                                       FALSE, <<>>, <<>>)]
             ELSE LET deleted == RepoDelete(store, id)
                      msg == NotifyOrderDeleted(order[1])
                  IN  IF ~deleted.existed
                      THEN [store |-> deleted.store, sent |-> <<>>,
                            lastError |-> err,
                            call |-> CallResult("deleteOrder", id, {}, FALSE, <<>>,
                                                FALSE, FALSE, order, <<>>)]
                      ELSE IF emitFails
                      THEN [store |-> deleted.store, sent |-> <<>>,
                            lastError |-> HandleError(t),
                            call |-> CallResult("deleteOrder", id, {}, TRUE, <<>>,
                                                FALSE, TRUE, order, <<msg>>)]
                      ELSE [store |-> deleted.store, sent |-> <<msg>>,
                            lastError |-> err,
                            call |-> CallResult("deleteOrder", id, {}, FALSE, <<>>,
                                                TRUE, TRUE, order, <<msg>>)]

\* createMultipleOrders: list holds the generated id and the body of each order;
\* a notification that throws is logged and skipped
CreateMultipleOrdersCall(store, err, list, t, emitFails) ==
    IF list = <<>>
    THEN [store |-> store, sent |-> <<>>, lastError |-> HandleError(t),
          call |-> CallResult("createMultipleOrders", NoId, {}, TRUE, <<>>, FALSE,
                              FALSE, <<>>, <<>>)]
    ELSE LET newOrders == [i \in 1..Len(list) |->
                             Order(list[i].id, list[i].data.address,
                                   list[i].data.status, list[i].data.collectorName, t)]
             created == RepoCreateMany(store, newOrders, t)
             msgs == [i \in 1..Len(created.ret) |-> NotifyOrderCreated(created.ret[i])]
         IN  [store |-> created.store,
              sent |-> IF emitFails THEN <<>> ELSE msgs,
              lastError |-> err,
              call |-> [CallResult("createMultipleOrders", NoId, {}, FALSE,
                                   created.ret, FALSE, created.ret # <<>>,
                                   created.ret, msgs)
                        EXCEPT !.list = list]]

\* updateMultipleOrders
UpdateMultipleOrdersCall(store, err, updates, t, emitFails) ==
    IF updates = <<>>
    THEN [store |-> store, sent |-> <<>>, lastError |-> HandleError(t),
          call |-> CallResult("updateMultipleOrders", NoId, {}, TRUE, <<>>, FALSE,
                              FALSE, <<>>, <<>>)]
    ELSE LET updated == RepoUpdateMany(store, updates, t)
             msgs == [i \in 1..Len(updated.ret) |-> NotifyOrderUpdated(updated.ret[i])]
         IN  [store |-> updated.store,
              sent |-> IF emitFails THEN <<>> ELSE msgs,
              lastError |-> err,
              call |-> [CallResult("updateMultipleOrders", NoId, {}, FALSE,
                                   updated.ret, FALSE, updated.ret # <<>>,
                                   updated.ret, msgs)
                        EXCEPT !.list = updates]]

\* the orders deleteMultipleOrders looks up before deleting, one per listed id
\* that is stored
RECURSIVE OrdersToDelete(_, _)
OrdersToDelete(store, ids) ==
    IF ids = <<>> THEN <<>>
    ELSE RepoFindById(store, Head(ids)) \o OrdersToDelete(store, Tail(ids))

\* deleteMultipleOrders: resolves to the number of orders deleteMany removed
DeleteMultipleOrdersCall(store, err, ids, t, emitFails) ==
    IF ids = <<>>
    THEN [store |-> store, sent |-> <<>>, lastError |-> HandleError(t),
          call |-> CallResult("deleteMultipleOrders", NoId, {}, TRUE, <<>>, FALSE,
                              FALSE, <<>>, <<>>)]
    ELSE LET ordersToDelete == OrdersToDelete(store, ids)
             deleted == RepoDeleteMany(store, ids)
             msgs == [i \in 1..Len(ordersToDelete) |->
                        NotifyOrderDeleted(ordersToDelete[i])]
         IN  [store |-> deleted.store,
              sent |-> IF emitFails THEN <<>> ELSE msgs,
              lastError |-> err,
              call |-> [CallResult("deleteMultipleOrders", NoId, {}, FALSE, <<>>,
                                   FALSE, deleted.count > 0, ordersToDelete, msgs)
                        EXCEPT !.count = deleted.count,
                               !.list = [k \in 1..Len(ids) |-> [id |-> ids[k]]]]]

(***************************************************************************)
(* Queries: findByFilters                                                  *)
(***************************************************************************)
\* the characters of the strings orders are made of
Chars(str) ==
    CASE str = "Main St" -> <<"M", "a", "i", "n", " ", "S", "t">>
      [] str = "Oak Ave" -> <<"O", "a", "k", " ", "A", "v", "e">>
      [] str = "Juan" -> <<"J", "u", "a", "n">>
      [] str = "Ana" -> <<"A", "n", "a">>
      [] OTHER -> <<>>

DigitChars == <<"0", "1", "2", "3", "4", "5", "6", "7", "8", "9">>

RECURSIVE Digits(_)
Digits(n) ==
    IF n < 10 THEN <<DigitChars[n + 1]>>
    ELSE Append(Digits(n \div 10), DigitChars[(n % 10) + 1])

\* the characters of an order id, `ORD-...`
IdChars(id) == <<"O", "R", "D", "-">> \o Digits(id[2])

LowerChar(ch) ==
    CASE ch = "A" -> "a" [] ch = "D" -> "d" [] ch = "J" -> "j"
      [] ch = "K" -> "k" [] ch = "M" -> "m" [] ch = "N" -> "n"
      [] ch = "O" -> "o" [] ch = "R" -> "r" [] ch = "S" -> "s"
      [] ch = "U" -> "u"
      [] OTHER -> ch

\* String.prototype.toLowerCase
ToLowerCase(cs) == [i \in 1..Len(cs) |-> LowerChar(cs[i])]

\* String.prototype.includes
Includes(text, term) ==
    \E k \in 0..(Len(text) - Len(term)) : SubSeq(text, k + 1, k + Len(term)) = term

\* OrderFilters: "" and <<>> stand for an absent (falsy) status and search
NoStatus == ""
NoSearch == <<>>
Filters(status, search) == [status |-> status, search |-> search]
NoFilters == Filters(NoStatus, NoSearch)

\* PaginationOptions, as a sequence of zero (absent) or one record; "" stands
\* for an absent sortBy or sortOrder
NoSort == ""
Pagination(page, limit, sortBy, sortOrder) ==
    <<[page |-> page, limit |-> limit, sortBy |-> sortBy, sortOrder |-> sortOrder]>>
NoPagination == <<>>

\* the search filter matching on one field only
SearchMatches_AddressOnly(order, search) ==
    Includes(ToLowerCase(Chars(order.address)), ToLowerCase(search))

\* the predicate of the search filter
SearchMatches(order, search) ==
    LET searchTerm == ToLowerCase(search)
    IN  \/ Includes(ToLowerCase(IdChars(order.id)), searchTerm)
        \/ Includes(ToLowerCase(Chars(order.collectorName)), searchTerm)
        \/ Includes(ToLowerCase(Chars(order.address)), searchTerm)

\* the two filter steps
ApplyFilters(list, filters) ==
    LET byStatus == IF filters.status # NoStatus
                    THEN SelectSeq(list, LAMBDA o : o.status = filters.status)
                    ELSE list
    IN  IF filters.search # NoSearch
        THEN SelectSeq(byStatus, LAMBDA o : SearchMatches(o, filters.search))
        ELSE byStatus

\* the place of a status string in the order `<` gives strings
StatusRank(status) ==
    CASE status = "cancelled" -> 1 [] status = "completed" -> 2
      [] status = "in-progress" -> 3 [] status = "in-route" -> 4
      [] status = "pending" -> 5 [] OTHER -> 0

\* a[sortBy] as a value `<` and `>` compare
SortValue(order, sortBy) ==
    CASE sortBy = "lastUpdated" -> order.lastUpdated
      [] sortBy = "status" -> StatusRank(order.status)
      [] OTHER -> 0

\* the comparator handed to Array.prototype.sort
Comparator(a, b, sortBy, sortOrder) ==
    LET aValue == SortValue(a, sortBy)
        bValue == SortValue(b, sortBy)
        comparison == IF aValue < bValue THEN -1 ELSE IF aValue > bValue THEN 1 ELSE 0
    IN  IF sortOrder = "desc" THEN -comparison ELSE comparison

\* Array.prototype.sort, which is stable: each element goes in front of the
\* first already placed element that compares greater
RECURSIVE SortOrders(_, _, _)
SortOrders(list, sortBy, sortOrder) ==
    IF list = <<>> THEN <<>>
    ELSE LET x == list[Len(list)]
             sorted == SortOrders(SubSeq(list, 1, Len(list) - 1), sortBy, sortOrder)
             greater == {i \in 1..Len(sorted) :
                            Comparator(sorted[i], x, sortBy, sortOrder) > 0}
             at == IF greater = {} THEN Len(sorted) + 1
                   ELSE CHOOSE i \in greater : \A j \in greater : i <= j
         IN  SubSeq(sorted, 1, at - 1) \o <<x>> \o SubSeq(sorted, at, Len(sorted))

\* the sorting step, taken only when sortBy is given
ApplySorting(list, pagination) ==
    IF pagination # NoPagination /\ pagination[1].sortBy # NoSort
    THEN SortOrders(list, pagination[1].sortBy, pagination[1].sortOrder)
    ELSE list

\* the slice starting one page too far
StartIndex_PageNotZeroBased(page, limit) == page * limit

\* startIndex of the requested page
StartIndex(page, limit) == (page - 1) * limit

\* Array.prototype.slice(start, end) for 0 <= start
Slice(list, start, end) ==
    SubSeq(list, start + 1, IF end < Len(list) THEN end ELSE Len(list))

\* the slicing step, taken only when pagination is given
ApplyPagination(list, pagination) ==
    IF pagination # NoPagination
    THEN LET startIndex == StartIndex(pagination[1].page, pagination[1].limit)
         IN  Slice(list, startIndex, startIndex + pagination[1].limit)
    ELSE list

\* a JavaScript number that is an integer, Infinity or NaN
Finite(n) == [kind |-> "finite", n |-> n]
Infinity == [kind |-> "Infinity", n |-> 0]
NaN == [kind |-> "NaN", n |-> 0]

\* Math.ceil(total / limit)
CeilDiv(total, limit) ==
    IF limit = 0 THEN (IF total = 0 THEN NaN ELSE Infinity)
    ELSE Finite((total + limit - 1) \div limit)

\* findByFilters(filters, pagination): the PaginatedResult
FindByFilters(store, filters, pagination) ==
    LET sorted == ApplySorting(ApplyFilters(store, filters), pagination)
        total == Len(sorted)
    IN  [data |-> ApplyPagination(sorted, pagination),
         page |-> IF pagination # NoPagination /\ pagination[1].page # 0
                  THEN pagination[1].page ELSE 1,
         limit |-> IF pagination # NoPagination /\ pagination[1].limit # 0
                   THEN pagination[1].limit ELSE total,
         total |-> total,
         totalPages |-> IF pagination # NoPagination
                        THEN CeilDiv(total, pagination[1].limit)
                        ELSE Finite(1)]

\* the counts of the statuses that occur only, no key for the others
CountByStatus_NoZeroKeys(store) ==
    [status \in {store[i].status : i \in 1..Len(store)} |->
        Cardinality({i \in 1..Len(store) : store[i].status = status})]

\* countByStatus: a record of the five statuses at 0, then one increment per
\* stored order (every stored status is one of the five: the routes that
\* write orders validate it)
RECURSIVE CountByStatus(_)
CountByStatus(store) ==
    IF store = <<>> THEN [status \in OrderStatus |-> 0]
    ELSE [CountByStatus(SubSeq(store, 1, Len(store) - 1))
            EXCEPT ![store[Len(store)].status] = @ + 1]

\* getTotalCount: Map.size
GetTotalCount(store) == Len(store)

\* baseSchemas.page / limit: the defaults and the ranges
DefaultPage == 1
DefaultLimit == 20
MaxPage == 1000
MaxLimit == 100

\* the query string of GET /orders: page and limit are sequences of zero
\* (absent) or one number, "" is an absent sortBy or sortOrder
RawQuery(filters, page, limit, sortBy, sortOrder) ==
    [filters |-> filters, page |-> page, limit |-> limit,
     sortBy |-> sortBy, sortOrder |-> sortOrder]

\* requestSchemas.getOrdersQuery: the ranges page and limit must be in
ValidGetOrdersQuery(raw) ==
    /\ raw.page # <<>> => (raw.page[1] >= 1 /\ raw.page[1] <= MaxPage)
    /\ raw.limit # <<>> => (raw.limit[1] >= 1 /\ raw.limit[1] <= MaxLimit)

\* the validated value without the sortBy and sortOrder defaults
GetOrdersQueryValue_NoSortDefault(raw) ==
    Pagination(IF raw.page = <<>> THEN DefaultPage ELSE raw.page[1],
               IF raw.limit = <<>> THEN DefaultLimit ELSE raw.limit[1],
               raw.sortBy, raw.sortOrder)

\* requestSchemas.getOrdersQuery: the validated value, defaults filled in
GetOrdersQueryValue(raw) ==
    Pagination(IF raw.page = <<>> THEN DefaultPage ELSE raw.page[1],
               IF raw.limit = <<>> THEN DefaultLimit ELSE raw.limit[1],
               IF raw.sortBy = NoSort THEN "lastUpdated" ELSE raw.sortBy,
               IF raw.sortOrder = NoSort THEN "desc" ELSE raw.sortOrder)

\* GET /orders: createValidationMiddleware, then getFilteredOrders; the
\* response as a sequence of zero (400 Validation Error) or one result
GetOrdersRoute(store, raw) ==
    IF ~ValidGetOrdersQuery(raw) THEN <<>>
    ELSE <<FindByFilters(store, raw.filters, GetOrdersQueryValue(raw))>>

\* getAllOrders(pagination) -> findByFilters({}, pagination): no filter, no
\* sortBy, so the Map's insertion order sliced to the requested page
GetAllOrders(store, page, limit) ==
    FindByFilters(store, NoFilters, Pagination(page, limit, NoSort, NoSort)).data

\* getServiceHealth: the thresholds on the age of the last error
DegradedAgeMs == 60000
UnhealthyAgeMs == 10000

\* the last error of exactly the threshold age still counts
HealthStatus_BoundaryInclusive(err, t) ==
    IF err = <<>> THEN "healthy"
    ELSE LET errorAge == t - err[1].timestamp
         IN  IF errorAge <= UnhealthyAgeMs THEN "unhealthy"
             ELSE IF errorAge <= DegradedAgeMs THEN "degraded"
             ELSE "healthy"

\* the status getServiceHealth derives from this.lastError at time t: the
\* second test overrides the outcome of the first
HealthStatus(err, t) ==
    IF err = <<>> THEN "healthy"
    ELSE LET errorAge == t - err[1].timestamp
             afterFirst == IF errorAge < DegradedAgeMs THEN "degraded" ELSE "healthy"
         IN  IF errorAge < UnhealthyAgeMs THEN "unhealthy" ELSE afterFirst

\* getServiceHealth at time t; startTime is the clock at construction, 0
GetServiceHealth(store, clients, err, t) ==
    [status |-> HealthStatus(err, t),
     totalOrders |-> GetTotalCount(store),
     activeConnections |-> Cardinality(clients),
     uptime |-> t,
     lastError |-> err]

(***************************************************************************)
(* Configuration                                                           *)
(***************************************************************************)
ApiKeyMinLen == 8

\* a key of n characters c
Key(n, c) == [i \in 1..n |-> c]

NoKey == <<>>                        \* WS_API_KEY unset, or no apiKey field
GoodKey == Key(ApiKeyMinLen, "k")
WrongKey == Key(ApiKeyMinLen, "x")
ShortKey == Key(ApiKeyMinLen - 1, "k")

\* origins are strings of characters
LocalhostPrefix ==
    <<"h","t","t","p",":","/","/","l","o","c","a","l","h","o","s","t",":">>

\* CORS_ORIGIN's default, http://localhost:3000
DefaultOrigin == LocalhostPrefix \o <<"3","0","0","0">>

\* http://localhost:8080
OtherLocalhostOrigin == LocalhostPrefix \o <<"8","0","8","0">>

\* http://localhost.evil.com
LookalikeOrigin ==
    <<"h","t","t","p",":","/","/","l","o","c","a","l","h","o","s","t",
      ".","e","v","i","l",".","c","o","m">>

\* https://evil.com
EvilOrigin == <<"h","t","t","p","s",":","/","/","e","v","i","l",".","c","o","m">>

UnknownOrigin == <<"U","n","k","n","o","w","n">>

NoHeader == <<>>

\* the handshake headers of a connection attempt
HeaderInputs ==
    [origin : {NoHeader, DefaultOrigin, OtherLocalhostOrigin, LookalikeOrigin, EvilOrigin},
     referer : {NoHeader, OtherLocalhostOrigin}]

\* headers.origin || headers.referer || 'Unknown'
HandshakeOrigin(headers) ==
    IF headers.origin # NoHeader THEN headers.origin
    ELSE IF headers.referer # NoHeader THEN headers.referer
    ELSE UnknownOrigin

OriginInputs == {HandshakeOrigin(h) : h \in HeaderInputs}

\* s.startsWith(prefix)
StartsWith(s, prefix) ==
    Len(s) >= Len(prefix) /\ SubSeq(s, 1, Len(prefix)) = prefix

\* origin.startsWith('http://localhost:')
IsLocalhostOrigin(origin) == StartsWith(origin, LocalhostPrefix)

NodeEnvUnset == ""

\* the environment defaults: NODE_ENV unset, CORS_ORIGIN localhost:3000,
\* no WS_API_KEY; nodeEnv is process.env.NODE_ENV, corsOrigin the list
\* config.corsOrigin.split(',')
DefaultPingTimeout == 60000
DefaultPingInterval == 25000

DefaultConfig ==
    [apiKey |-> NoKey, nodeEnv |-> NodeEnvUnset, corsOrigin |-> {DefaultOrigin},
     pingTimeout |-> DefaultPingTimeout, pingInterval |-> DefaultPingInterval]

ConfigInputs ==
    [apiKey : {NoKey, GoodKey, ShortKey},
     nodeEnv : {NodeEnvUnset, "development", "production"},
     corsOrigin : {{DefaultOrigin}},
     pingTimeout : {DefaultPingTimeout}, pingInterval : {DefaultPingInterval}]

\* the localhost rule applied whatever the environment
ValidateWebSocketOrigin_LocalhostAnywhere(origin, allowedOrigins, nodeEnv) ==
    \/ origin \in allowedOrigins
    \/ IsLocalhostOrigin(origin)

\* customValidations.validateWebSocketOrigin
ValidateWebSocketOrigin(origin, allowedOrigins, nodeEnv) ==
    \/ origin \in allowedOrigins
    \/ (IsLocalhostOrigin(origin) /\ nodeEnv = "development")

(***************************************************************************)
(* Session admission control                                               *)
(***************************************************************************)
WindowMs == 60000
MaxMessages == 30
BlockDurationMs == 300000
InitialPage == 1
InitialLimit == 50

\* connectionAuthMiddleware: the socket as it is admitted at time t.
\* blockedAt and admitted are observations, not fields of the program:
\* blockedAt is the time of the message that last set isBlocked, -1 if none;
\* admitted lists, for the times within the last WindowMs of the latest
\* message the rate limiter let through, how many it let through at each.
NewSocket(cfg, origin, t) ==
    [isAuthenticated |-> (cfg.apiKey = NoKey),
     messageCount |-> 0, lastReset |-> t, isBlocked |-> FALSE,
     connectedAt |-> t, origin |-> origin, blockedAt |-> -1, admitted |-> <<>>]

\* the observation admitted after the rate limiter let a message through at t
Admit(admitted, t) ==
    LET kept == SelectSeq(admitted, LAMBDA e : e.at > t - WindowMs)
    IN  IF kept # <<>> /\ kept[Len(kept)].at = t
        THEN [kept EXCEPT ![Len(kept)].n = @ + 1]
        ELSE Append(kept, [at |-> t, n |-> 1])

\* messages a client can send on the 'message' event
Msg(type, apiKey) == [type |-> type, apiKey |-> apiKey]

MsgInputs ==
    {Msg("subscribe", k) : k \in {NoKey, GoodKey, WrongKey, ShortKey}}
    \cup {Msg("unsubscribe", NoKey), Msg("ping", NoKey), Msg("bogus", NoKey)}

\* requestSchemas.websocketMessage: a known type, and for subscribe an apiKey
\* of at least 8 characters
ValidWebsocketMessage(data) ==
    /\ data.type \in {"subscribe", "unsubscribe", "ping"}
    /\ data.type = "subscribe" => Len(data.apiKey) >= ApiKeyMinLen

\* the `>` of the quota test written as `>=`
OverQuota_OffByOne(messageCount) == messageCount >= MaxMessages

\* messageCount > WS_RATE_LIMIT.maxMessages
OverQuota(messageCount) == messageCount > MaxMessages

\* the block check counting the message it rejects
RateLimit_CountsBlocked(sock, t) ==
    LET blockExpiry == sock.lastReset + BlockDurationMs
        stillBlocked == sock.isBlocked /\ t < blockExpiry
        s1 == IF sock.isBlocked /\ ~stillBlocked
              THEN [sock EXCEPT !.isBlocked = FALSE, !.messageCount = 0,
                                !.lastReset = t]
              ELSE sock
        timeSinceReset == t - s1.lastReset
    IN  IF stillBlocked
        THEN [sock |-> [sock EXCEPT !.messageCount = @ + 1],
              error |-> "Client is temporarily blocked"]
        ELSE IF timeSinceReset > WindowMs
        THEN [sock |-> [s1 EXCEPT !.messageCount = 1, !.lastReset = t,
                                  !.admitted = Admit(@, t)],
              error |-> ""]
        ELSE IF OverQuota(s1.messageCount + 1)
        THEN [sock |-> [s1 EXCEPT !.messageCount = @ + 1, !.isBlocked = TRUE,
                                  !.blockedAt = t],
              error |-> "Rate limit exceeded. Client temporarily blocked."]
        ELSE [sock |-> [s1 EXCEPT !.messageCount = @ + 1,
                                  !.admitted = Admit(@, t)],
              error |-> ""]

\* messageAuthMiddleware, the block check and the rate limiter: the socket
\* afterwards and the error handed to the callback ("" when the message
\* goes on to validation)
RateLimit(sock, t) ==
    LET blockExpiry == sock.lastReset + BlockDurationMs
        stillBlocked == sock.isBlocked /\ t < blockExpiry
        s1 == IF sock.isBlocked /\ ~stillBlocked
              THEN [sock EXCEPT !.isBlocked = FALSE, !.messageCount = 0,
                                !.lastReset = t]
              ELSE sock
        timeSinceReset == t - s1.lastReset
    IN  IF stillBlocked
        THEN [sock |-> sock, error |-> "Client is temporarily blocked"]
        ELSE IF timeSinceReset > WindowMs
        THEN [sock |-> [s1 EXCEPT !.messageCount = 1, !.lastReset = t,
                                  !.admitted = Admit(@, t)],
              error |-> ""]
        ELSE IF OverQuota(s1.messageCount + 1)
        THEN [sock |-> [s1 EXCEPT !.messageCount = @ + 1, !.isBlocked = TRUE,
                                  !.blockedAt = t],
              error |-> "Rate limit exceeded. Client temporarily blocked."]
        ELSE [sock |-> [s1 EXCEPT !.messageCount = @ + 1,
                                  !.admitted = Admit(@, t)],
              error |-> ""]

\* the subscribe gate of messageAuthMiddleware skipped: every valid
\* subscribe authenticates the socket
AuthenticateSubscribe_NoKeyCheck(sock, cfg, data) ==
    [sock |-> [sock EXCEPT !.isAuthenticated = TRUE], error |-> ""]

\* messageAuthMiddleware, the authentication of a subscribe message
AuthenticateSubscribe(sock, cfg, data) ==
    IF data.type = "subscribe" /\ cfg.apiKey # NoKey /\ ~sock.isAuthenticated
    THEN IF data.apiKey = NoKey \/ data.apiKey # cfg.apiKey
         THEN [sock |-> sock, error |-> "Authentication required"]
         ELSE [sock |-> [sock EXCEPT !.isAuthenticated = TRUE], error |-> ""]
    ELSE [sock |-> sock, error |-> ""]

\* messageAuthMiddleware for the 'message' event: rate limit, then schema
\* validation, then the subscribe authentication
MessageAuth(sock, cfg, data, t) ==
    LET limited == RateLimit(sock, t)
    IN  IF limited.error # ""
        THEN limited
        ELSE IF ~ValidWebsocketMessage(data)
        THEN [sock |-> limited.sock, error |-> "Invalid message format"]
        ELSE AuthenticateSubscribe(limited.sock, cfg, data)

\* the message handler with an unsubscribe that also clears isAuthenticated
OnMessage_UnsubscribeClearsAuth(sock, inRoom, cfg, data, t) ==
    LET auth == MessageAuth(sock, cfg, data, t)
    IN  IF auth.error # ""
        THEN [sock |-> auth.sock, inRoom |-> inRoom, ack |-> auth.error]
        ELSE CASE data.type = "subscribe" ->
                    IF auth.sock.isAuthenticated
                    THEN [sock |-> auth.sock, inRoom |-> TRUE, ack |-> "success"]
                    ELSE [sock |-> auth.sock, inRoom |-> inRoom,
                          ack |-> "Authentication required"]
               [] data.type = "unsubscribe" ->
                    [sock |-> [auth.sock EXCEPT !.isAuthenticated = FALSE],
                     inRoom |-> FALSE, ack |-> "success"]
               [] data.type = "ping" ->
                    [sock |-> auth.sock, inRoom |-> inRoom, ack |-> "pong"]
               [] OTHER ->
                    [sock |-> auth.sock, inRoom |-> inRoom,
                     ack |-> "Unknown message type"]

\* socket.on('message'): the socket afterwards, whether it is in the 'orders'
\* room afterwards, and what the callback is called with
OnMessage(sock, inRoom, cfg, data, t) ==
    LET auth == MessageAuth(sock, cfg, data, t)
    IN  IF auth.error # ""
        THEN [sock |-> auth.sock, inRoom |-> inRoom, ack |-> auth.error]
        ELSE CASE data.type = "subscribe" ->
                    IF auth.sock.isAuthenticated
                    THEN [sock |-> auth.sock, inRoom |-> TRUE, ack |-> "success"]
                    ELSE [sock |-> auth.sock, inRoom |-> inRoom,
                          ack |-> "Authentication required"]
               [] data.type = "unsubscribe" ->
                    [sock |-> auth.sock, inRoom |-> FALSE, ack |-> "success"]
               [] data.type = "ping" ->
                    [sock |-> auth.sock, inRoom |-> inRoom, ack |-> "pong"]
               [] OTHER ->
                    [sock |-> auth.sock, inRoom |-> inRoom,
                     ack |-> "Unknown message type"]

(***************************************************************************)
(* setupHeartbeat: the interval that pings, and the timeouts it starts.    *)
(* A timeout is known by the time it is due.                               *)
(*   nextPing     when the interval fires next                             *)
(*   pongTimeout  the variable pongTimeout: the timeout started last,      *)
(*                NoTimer before the first ping                            *)
(*   pending      the timeouts started and neither fired nor cleared       *)
(***************************************************************************)
NoTimer == -1

\* startHeartbeat: setInterval(..., config.websocket.pingInterval)
StartHeartbeat(cfg, t) ==
    [nextPing |-> t + cfg.pingInterval, pongTimeout |-> NoTimer, pending |-> {}]

\* the interval pinging without starting a timeout
PingFired_NoTimeout(hb, cfg, t) ==
    [hb EXCEPT !.nextPing = t + cfg.pingInterval]

\* the interval fires at t: socket.emit('ping') and
\* pongTimeout = setTimeout(..., config.websocket.pingTimeout)
PingFired(hb, cfg, t) ==
    [nextPing |-> t + cfg.pingInterval,
     pongTimeout |-> t + cfg.pingTimeout,
     pending |-> hb.pending \cup {t + cfg.pingTimeout}]

\* socket.on('pong'): if (pongTimeout) clearTimeout(pongTimeout)
PongReceived(hb) == [hb EXCEPT !.pending = @ \ {hb.pongTimeout}]

\* the timeouts of hb that are due at t
DueTimeouts(hb, t) == {d \in hb.pending : d <= t}

(***************************************************************************)
(* connectionMonitor.cleanup                                               *)
(***************************************************************************)
MaxAgeMs == 86400000

\* connectionMonitor.getConnectionStats, without the count by origin
GetConnectionStats(socks, monitored) ==
    [total |-> Cardinality(monitored),
     authenticated |-> Cardinality({sid \in monitored : socks[sid].isAuthenticated}),
     blocked |-> Cardinality({sid \in monitored : socks[sid].isBlocked})]

\* "Remove connections that have been blocked for too long"
BlockedEvict(sock, t) ==
    sock.isBlocked /\ t > sock.lastReset + BlockDurationMs

\* "Remove very old inactive connections"
AgeEvict(sock, t) == t - sock.connectedAt > MaxAgeMs

\* the sockets a run of cleanup at t disconnects
Evicted(socks, monitored, t) ==
    {sid \in monitored : BlockedEvict(socks[sid], t) \/ AgeEvict(socks[sid], t)}

\* cleanedCount counting a socket once
CleanedCount_PerSocket(socks, monitored, t) ==
    Cardinality(Evicted(socks, monitored, t))

\* cleanedCount: incremented in each of the two tests
CleanedCount(socks, monitored, t) ==
    Cardinality({sid \in monitored : BlockedEvict(socks[sid], t)})
    + Cardinality({sid \in monitored : AgeEvict(socks[sid], t)})

(***************************************************************************)
(* The dashboard client: useSocket                                         *)
(***************************************************************************)
\* the initial-orders handler appending the snapshot to the list it holds
ApplyMessage_SnapshotAppends(list, m) ==
    CASE m.type = "initial-orders" -> list \o m.data
      [] m.type = "order-created" -> Append(list, m.data)
      [] m.type = "order-update" ->
            [i \in 1..Len(list) |-> IF list[i].id = m.data.id THEN m.data ELSE list[i]]
      [] m.type = "order-deleted" ->
            SelectSeq(list, LAMBDA o : o.id # m.data.id)
      [] OTHER -> list

\* the handlers for initial-orders, order-created, order-update, order-deleted
ApplyMessage(list, m) ==
    CASE m.type = "initial-orders" -> m.data
      [] m.type = "order-created" -> Append(list, m.data)
      [] m.type = "order-update" ->
            [i \in 1..Len(list) |-> IF list[i].id = m.data.id THEN m.data ELSE list[i]]
      [] m.type = "order-deleted" ->
            SelectSeq(list, LAMBDA o : o.id # m.data.id)
      [] OTHER -> list

\* the hook's orders after it handled msgs in order
RECURSIVE ApplyMessages(_, _)
ApplyMessages(list, msgs) ==
    IF msgs = <<>> THEN list
    ELSE ApplyMessages(ApplyMessage(list, Head(msgs)), Tail(msgs))

(***************************************************************************)
(* Fan-out                                                                 *)
(***************************************************************************)
Clients == 1..MaxClients

\* the sockets io.to('orders').emit reaches
RoomRecipients(socks, members) == members

\* the sockets io.emit reaches: every connected socket
BroadcastRecipients(socks, members) == DOMAIN socks

MessageTypes(msgs) == [i \in 1..Len(msgs) |-> msgs[i].type]

\* broadcast(message) for each message of a call, in order: what every
\* socket is sent
DeliverWire(w, msgs) ==
    [sid \in DOMAIN w |->
        IF sid \in BroadcastRecipients(sockets, room)
        THEN w[sid] \o MessageTypes(msgs)
        ELSE w[sid]]

\* ... and what the hooks of the clients behind those sockets make of it
DeliverClients(lists, msgs) ==
    [c \in Clients |->
        IF socketOf[c] \in BroadcastRecipients(sockets, room)
        THEN ApplyMessages(lists[c], msgs)
        ELSE lists[c]]

\* the 'initial-orders' emit of the connection handler, only for a socket that
\* is authenticated as it connects
InitialOrders(sock, store) ==
    IF sock.isAuthenticated
    THEN <<WsMessage("initial-orders", GetAllOrders(store, InitialPage, InitialLimit))>>
    ELSE <<>>

(***************************************************************************)
(* Initial state: the services as constructed in index.ts                  *)
(***************************************************************************)
\* no read has been requested
NoRead == [op |-> "none", args |-> <<>>, done |-> TRUE, result |-> <<>>]

\* a read that has been requested and not answered yet
ReadRequest(op, args) == [op |-> op, args |-> args, done |-> FALSE, result |-> <<>>]

\* the answer to the pending read
Answer(result) == [lastRead EXCEPT !.done = TRUE, !.result = <<result>>]

NoCall == CallResult("none", NoId, {}, FALSE, <<>>, FALSE, FALSE, <<>>, <<>>)

\* what the callback of a message from socket sid was called with
Ack(sid, data, ack) == [sid |-> sid, data |-> data, ack |-> ack]

\* what a run of connectionMonitor.cleanup did: when it ran, the sockets it
\* disconnected and its cleanedCount
Sweep(t, evicted, cleanedCount) ==
    [at |-> t, evicted |-> evicted, cleanedCount |-> cleanedCount]

NoSweep == Sweep(-1, {}, 0)

InitRead(cfg, store, read) ==
    /\ orders = store
    /\ now = 0
    /\ lastError = <<>>
    /\ lastCall = NoCall
    /\ config = cfg
    /\ sockets = <<>>
    /\ socketOf = [c \in Clients |-> 0]
    /\ nextSid = 1
    /\ connectedClients = {}
    /\ monitorConns = {}
    /\ room = {}
    /\ wire = <<>>
    /\ clientOrders = [c \in Clients |-> <<>>]
    /\ lastAck = Ack(0, Msg("none", NoKey), "")
    /\ lastRead = read
    /\ heartbeat = <<>>
    /\ probes = <<>>
    /\ closed = <<>>
    /\ lastSweep = NoSweep
    /\ tasks = <<>>
    /\ emitted = <<>>
    /\ applied = <<>>

InitWith(cfg, store) == InitRead(cfg, store, NoRead)

Init == InitWith(DefaultConfig, <<>>)

(***************************************************************************)
(* Actions                                                                 *)
(***************************************************************************)
\* time passes
Tick(step, limit) ==
    /\ now + step <= limit
    /\ now' = now + step
    /\ UNCHANGED <<storeVars, config, sessVars, wireVars, lastRead, liveVars, taskVars>>

\* the effect of a coordinator call r on the program
Coordinate(r) ==
    /\ orders' = r.store
    /\ lastError' = r.lastError
    /\ lastCall' = r.call
    /\ wire' = DeliverWire(wire, r.sent)
    /\ clientOrders' = DeliverClients(clientOrders, r.sent)
    /\ UNCHANGED <<now, config, sessVars, lastRead, liveVars, taskVars>>

\* POST /orders
CreateOrder(ids, inputs) ==
    \E id \in ids, orderData \in inputs, emitFails \in BOOLEAN :
        Coordinate(CreateOrderCall(orders, lastError, id, orderData, now, emitFails))

\* PUT /orders/{id}
UpdateOrder(ids, inputs) ==
    \E id \in ids, updateData \in inputs, emitFails \in BOOLEAN :
        Coordinate(UpdateOrderCall(orders, lastError, id, updateData, now, emitFails))

\* DELETE /orders/{id}
DeleteOrder(ids) ==
    \E id \in ids, emitFails \in BOOLEAN :
        Coordinate(DeleteOrderCall(orders, lastError, id, now, emitFails))

\* POST /orders/bulk
CreateMultipleOrders(ids, inputs) ==
    \E list \in BulkLists([id : ids, data : inputs]), emitFails \in BOOLEAN :
        Coordinate(CreateMultipleOrdersCall(orders, lastError, list, now, emitFails))

\* PUT /orders/bulk
UpdateMultipleOrders(ids, inputs) ==
    \E updates \in BulkLists([id : ids, data : inputs]), emitFails \in BOOLEAN :
        Coordinate(UpdateMultipleOrdersCall(orders, lastError, updates, now, emitFails))

\* DELETE /orders/bulk
DeleteMultipleOrders(ids) ==
    \E list \in BulkLists(ids), emitFails \in BOOLEAN :
        Coordinate(DeleteMultipleOrdersCall(orders, lastError, list, now, emitFails))

\* a client opens a socket: connectionAuthMiddleware, then the connection
\* handlers of the notifier and of index.ts
Connect(clients, origins) ==
    \E c \in clients, origin \in origins :
        /\ socketOf[c] = 0
        /\ nextSid <= MaxSockets
        /\ IF ~ValidateWebSocketOrigin(origin, config.corsOrigin, config.nodeEnv)
           THEN /\ lastAck' = Ack(0, Msg("connect", NoKey), "Invalid origin")
                /\ UNCHANGED <<sockets, socketOf, nextSid, connectedClients,
                               monitorConns, room, wireVars, heartbeat, probes>>
           ELSE LET sid == nextSid
                    sock == NewSocket(config, origin, now)
                IN  /\ sockets' = sockets @@ (sid :> sock)
                    /\ socketOf' = [socketOf EXCEPT ![c] = sid]
                    /\ nextSid' = nextSid + 1
                    /\ connectedClients' = connectedClients \cup {sid}
                    /\ monitorConns' = monitorConns \cup {sid}
                    /\ wire' = wire @@ (sid :> MessageTypes(InitialOrders(sock, orders)))
                    /\ clientOrders' =
                         [clientOrders EXCEPT
                            ![c] = ApplyMessages(@, InitialOrders(sock, orders))]
                    /\ lastAck' = Ack(sid, Msg("connect", NoKey), "connected")
                    /\ heartbeat' = heartbeat @@ (sid :> StartHeartbeat(config, now))
                    /\ probes' = probes @@ (sid :> <<>>)
                    /\ UNCHANGED room
        /\ UNCHANGED <<storeVars, now, config, lastRead, closed, lastSweep, taskVars>>

\* a function without the keys in ks
Without(f, ks) == [x \in DOMAIN f \ ks |-> f[x]]

\* the disconnect handlers with the one of index.ts missing: the connection
\* monitor keeps its entry
CloseSockets_KeepsMonitorEntry(sids, by) ==
    /\ sockets' = Without(sockets, sids)
    /\ socketOf' = [c \in Clients |-> IF socketOf[c] \in sids THEN 0 ELSE socketOf[c]]
    /\ connectedClients' = connectedClients \ sids
    /\ monitorConns' = monitorConns
    /\ room' = room \ sids
    /\ wire' = Without(wire, sids)
    /\ heartbeat' = Without(heartbeat, sids)
    /\ probes' = Without(probes, sids)
    /\ closed' = closed @@ [sid \in sids |-> by]

\* the sockets in sids are disconnected, by saying by what: the
\* 'disconnect' handlers of the notifier (removeClient), of index.ts
\* (removeConnection) and of setupHeartbeat (stopHeartbeat) run, and
\* socket.io takes the socket out of its rooms.  Timers of the socket that
\* stopHeartbeat does not clear find it disconnected when they fire, and
\* their socket.disconnect does nothing.
CloseSockets(sids, by) ==
    /\ sockets' = Without(sockets, sids)
    /\ socketOf' = [c \in Clients |-> IF socketOf[c] \in sids THEN 0 ELSE socketOf[c]]
    /\ connectedClients' = connectedClients \ sids
    /\ monitorConns' = monitorConns \ sids
    /\ room' = room \ sids
    /\ wire' = Without(wire, sids)
    /\ heartbeat' = Without(heartbeat, sids)
    /\ probes' = Without(probes, sids)
    /\ closed' = closed @@ [sid \in sids |-> by]

\* the socket closes on the client's side
Disconnect(clients) ==
    \E c \in clients :
        /\ socketOf[c] # 0
        /\ CloseSockets({socketOf[c]}, "client")
        /\ UNCHANGED <<storeVars, now, config, nextSid, clientOrders, lastAck,
                       lastRead, lastSweep, taskVars>>

\* a client sends a message on its socket
Message(clients, msgs) ==
    \E c \in clients, data \in msgs :
        /\ socketOf[c] # 0
        /\ LET sid == socketOf[c]
               r == OnMessage(sockets[sid], sid \in room, config, data, now)
           IN  /\ sockets' = [sockets EXCEPT ![sid] = r.sock]
               /\ room' = IF r.inRoom THEN room \cup {sid} ELSE room \ {sid}
               /\ lastAck' = Ack(sid, data, r.ack)
        /\ UNCHANGED <<storeVars, now, config, socketOf, nextSid, connectedClients,
                       monitorConns, wireVars, lastRead, liveVars, taskVars>>

\* the coordinator's single-order operations, with time passing
Next ==
    \/ Tick(1, MaxClock)
    \/ CreateOrder(OrderIds, OrderDataInputs)
    \/ UpdateOrder(OrderIds \cup {NoId}, UpdateDataInputs)
    \/ DeleteOrder(OrderIds \cup {NoId})

Spec == Init /\ [][Next]_vars

\* single-order and bulk operations interleaved, all within one clock reading
NextBulk ==
    \/ CreateOrder(OrderIds, BulkCreateInputs)
    \/ UpdateOrder(OrderIds, BulkUpdateInputs)
    \/ DeleteOrder(OrderIds)
    \/ CreateMultipleOrders(OrderIds, BulkCreateInputs)
    \/ UpdateMultipleOrders(OrderIds, BulkUpdateInputs)
    \/ DeleteMultipleOrders(OrderIds)

SpecBulk == Init /\ [][NextBulk]_vars

\* sessions under the admission control: one origin, pings and subscribes,
\* the clock moving in half-windows
RateStep == WindowMs \div 2

NextRate ==
    \/ Tick(RateStep, MaxRateTicks * RateStep)
    \/ Connect({1}, {DefaultOrigin})
    \/ Message({1}, {Msg("ping", NoKey)})

SpecRate == Init /\ [][NextRate]_vars

\* no socket has been sent MaxEvents messages yet
WireOpen == \A sid \in DOMAIN wire : Len(wire[sid]) < MaxEvents

\* no connected socket has sent MaxMsgs messages yet
MsgsOpen == \A sid \in DOMAIN sockets : sockets[sid].messageCount < MaxMsgs

\* sessions and order changes together, with and without a shared secret
SyncIds == {<<"ORD", 1>>}

InitSync ==
    \E key \in {NoKey, GoodKey} : InitWith([DefaultConfig EXCEPT !.apiKey = key], <<>>)

NextSync ==
    \/ (WireOpen /\ CreateOrder(SyncIds, BulkCreateInputs))
    \/ (WireOpen /\ UpdateOrder(SyncIds, BulkUpdateInputs))
    \/ (WireOpen /\ DeleteOrder(SyncIds))
    \/ Connect(Clients, {DefaultOrigin, EvilOrigin})
    \/ Disconnect(Clients)
    \/ (MsgsOpen /\ Message(Clients, {Msg("subscribe", GoodKey), Msg("unsubscribe", NoKey)}))

SpecSync == InitSync /\ [][NextSync]_vars

\* the admission of one client's connections and messages under every
\* configuration, within one clock reading
InitAuth == \E cfg \in ConfigInputs : InitWith(cfg, <<>>)

NextAuth ==
    \/ Connect({1}, OriginInputs)
    \/ Disconnect({1})
    \/ Message({1}, MsgInputs)

SpecAuth == InitAuth /\ [][NextAuth]_vars

\* the server after initializeWithSampleData: SampleCount orders (their
\* random fields fixed to one outcome), then one client coming and going
\* while orders are created and deleted
SampleCount == 20

SampleOrders ==
    [i \in 1..SampleCount |-> Order(<<"ORD", i>>, "Main St", "pending", "Juan", 0)]

ReconnectIds == {<<"ORD", SampleCount + i>> : i \in 1..MaxIds}

InitReconnect == InitWith(DefaultConfig, SampleOrders)

NextReconnect ==
    \/ (WireOpen /\ CreateOrder(ReconnectIds, BulkCreateInputs))
    \/ (WireOpen /\ DeleteOrder(ReconnectIds))
    \/ Connect({1}, {DefaultOrigin})
    \/ Disconnect({1})

SpecReconnect == InitReconnect /\ [][NextReconnect]_vars

\* GET /orders answered by findByFilters
FindByFiltersRead ==
    /\ lastRead.op = "findByFilters"
    /\ ~lastRead.done
    /\ lastRead' = Answer(FindByFilters(orders, lastRead.args.filters,
                                        lastRead.args.pagination))
    /\ UNCHANGED <<storeVars, now, config, sessVars, wireVars, liveVars, taskVars>>

\* GET /orders answered by the route handler
GetOrdersRead ==
    /\ lastRead.op = "getOrders"
    /\ ~lastRead.done
    /\ lastRead' = Answer(GetOrdersRoute(orders, lastRead.args))
    /\ UNCHANGED <<storeVars, now, config, sessVars, wireVars, liveVars, taskVars>>

\* GET /orders/health answered by getServiceHealth
GetServiceHealthRead ==
    /\ lastRead' = [op |-> "getServiceHealth", args |-> <<>>, done |-> TRUE,
                    result |-> <<GetServiceHealth(orders, connectedClients,
                                                  lastError, now)>>]
    /\ UNCHANGED <<storeVars, now, config, sessVars, wireVars, liveVars, taskVars>>

\* the health of the coordinator: one order is created and deleted and one
\* client comes and goes, then the clock moves in half-thresholds while calls
\* fail; each run ends with one health report
HealthStep == UnhealthyAgeMs \div 2

HealthData == {[address |-> "Main St", status |-> "pending", collectorName |-> "Juan"]}

\* no health report has been asked for yet
HealthOpen == lastRead = NoRead

\* the store and the sessions are set up within the first clock reading
HealthSetup == HealthOpen /\ now = 0 /\ WireOpen

NextHealth ==
    \/ (HealthOpen /\ Tick(HealthStep, MaxHealthTicks * HealthStep))
    \/ (HealthSetup /\ CreateOrder(SyncIds, HealthData))
    \/ (HealthSetup /\ DeleteOrder(SyncIds))
    \/ (HealthOpen /\ DeleteOrder({NoId}))
    \/ (HealthSetup /\ Connect({1}, {DefaultOrigin}))
    \/ (HealthSetup /\ Disconnect({1}))
    \/ GetServiceHealthRead

SpecHealth == Init /\ [][NextHealth]_vars

\* the client's socket hands the hook one message
ClientReceive(c, msgs) ==
    \E m \in msgs :
        /\ clientOrders' = [clientOrders EXCEPT ![c] = ApplyMessage(@, m)]
        /\ lastRead' = [op |-> "clientEvent",
                        args |-> [type |-> m.type,
                                  orders |-> IF m.type = "initial-orders"
                                             THEN m.data ELSE <<m.data>>],
                        done |-> TRUE, result |-> <<>>]
        /\ UNCHANGED <<storeVars, now, config, sessVars, wire, liveVars, taskVars>>

\* the orders the events of the client specification carry
ClientEventOrders ==
    {Order(id, "Main St", status, "Juan", 0) : id \in OrderIds, status \in StatusInputs}

ClientEvents ==
    {WsMessage(type, o) : type \in {"order-created", "order-update", "order-deleted"},
                          o \in ClientEventOrders}

ClientSnapshots ==
    {WsMessage("initial-orders", list) : list \in {<<>>} \cup {<<o>> : o \in ClientEventOrders}}

\* the hook holds at most one order more than there are ids
ClientListOpen == Len(clientOrders[1]) <= MaxIds

\* one dashboard client handed snapshots and order events in any order
NextClient ==
    \/ (ClientListOpen /\ ClientReceive(1, ClientEvents))
    \/ ClientReceive(1, ClientSnapshots)

SpecClient == Init /\ [][NextClient]_vars

\* no interval and no timeout of any heartbeat is due: the timers phase of
\* the event loop has nothing to run
TimersQuiet ==
    \A sid \in DOMAIN heartbeat :
        heartbeat[sid].nextPing > now /\ DueTimeouts(heartbeat[sid], now) = {}

\* the ping interval of a socket fires
Ping ==
    \E sid \in DOMAIN heartbeat :
        /\ heartbeat[sid].nextPing <= now
        /\ heartbeat' = [heartbeat EXCEPT ![sid] = PingFired(@, config, now)]
        /\ probes' = [probes EXCEPT ![sid] = Append(@, now)]
        /\ wire' = [wire EXCEPT ![sid] = Append(@, "ping")]
        /\ UNCHANGED <<storeVars, now, config, sessVars, clientOrders, lastRead,
                       closed, lastSweep, taskVars>>

\* a client answers the oldest ping it has not answered: the 'pong' handler
Pong(clients) ==
    \E c \in clients :
        /\ socketOf[c] # 0
        /\ probes[socketOf[c]] # <<>>
        /\ heartbeat' = [heartbeat EXCEPT ![socketOf[c]] = PongReceived(@)]
        /\ probes' = [probes EXCEPT ![socketOf[c]] = Tail(@)]
        /\ UNCHANGED <<storeVars, now, config, sessVars, wireVars, lastRead,
                       closed, lastSweep, taskVars>>

\* a pong timeout of a socket fires: socket.disconnect(true)
PongTimeout ==
    \E sid \in DOMAIN heartbeat :
        /\ DueTimeouts(heartbeat[sid], now) # {}
        /\ CloseSockets({sid}, "heartbeat")
        /\ UNCHANGED <<storeVars, now, config, nextSid, clientOrders, lastAck,
                       lastRead, lastSweep, taskVars>>

\* the heartbeat of one client's sockets, with the default interval and
\* timeout and with the two exchanged; timers that are due run before time
\* passes and before a pong is handled
HeartbeatConfigs ==
    {DefaultConfig,
     [DefaultConfig EXCEPT !.pingInterval = DefaultPingTimeout,
                           !.pingTimeout = DefaultPingInterval]}

HbStep == DefaultPingInterval \div 5

InitHeartbeat == \E cfg \in HeartbeatConfigs : InitWith(cfg, <<>>)

NextHeartbeat ==
    \/ (TimersQuiet /\ Tick(HbStep, MaxHbTicks * HbStep))
    \/ (TimersQuiet /\ Connect({1}, {DefaultOrigin}))
    \/ (TimersQuiet /\ Disconnect({1}))
    \/ Ping
    \/ (TimersQuiet /\ Pong({1}))
    \/ PongTimeout

SpecHeartbeat == InitHeartbeat /\ [][NextHeartbeat]_vars

\* ... where a timeout that is due does fire
SpecHeartbeatLive == SpecHeartbeat /\ WF_vars(PongTimeout)

\* the periodic connectionMonitor.cleanup runs
Cleanup ==
    LET evicted == Evicted(sockets, monitorConns, now)
    IN  /\ CloseSockets(evicted, "sweep")
        /\ lastSweep' = Sweep(now, evicted, CleanedCount(sockets, monitorConns, now))
        /\ UNCHANGED <<storeVars, now, config, nextSid, clientOrders, lastAck,
                       lastRead, taskVars>>

\* disconnectClient leaving the connection monitor alone
DisconnectClient_RemoveClientOnly ==
    \E sid \in connectedClients :
        /\ connectedClients' = connectedClients \ {sid}
        /\ UNCHANGED <<storeVars, now, config, sockets, socketOf, nextSid,
                       monitorConns, room, lastAck, wireVars, lastRead, liveVars,
                       taskVars>>

\* notificationService.disconnectClient(clientId) for a client it knows
DisconnectClient ==
    \E sid \in connectedClients :
        /\ CloseSockets({sid}, "disconnectClient")
        /\ UNCHANGED <<storeVars, now, config, nextSid, clientOrders, lastAck,
                       lastRead, lastSweep, taskVars>>

\* the clock of the sweep specification moves by block durations, at most
\* MaxSweepTicks of them in a day, and by days
SweepClockOpen(step) ==
    \/ step = MaxAgeMs
    \/ (now % MaxAgeMs) + step <= MaxSweepTicks * BlockDurationMs

\* no socket is in the middle of a burst of messages
Settled ==
    \A sid \in DOMAIN sockets :
        sockets[sid].messageCount = 0 \/ sockets[sid].isBlocked

\* one client's sessions from connection to every kind of disconnection,
\* over more than a day; timers that are due run before anything else of the
\* same instant, and a client that starts to send goes on until it is blocked
NextSweep ==
    \/ \E step \in {BlockDurationMs, MaxAgeMs} :
          /\ TimersQuiet /\ Settled
          /\ SweepClockOpen(step)
          /\ Tick(step, MaxAgeMs + MaxSweepTicks * BlockDurationMs)
    \/ (TimersQuiet /\ Settled /\ Connect({1}, {DefaultOrigin}))
    \/ (TimersQuiet /\ Settled /\ Disconnect({1}))
    \/ (TimersQuiet /\ Message({1}, {Msg("ping", NoKey)}))
    \/ Ping
    \/ (TimersQuiet /\ Settled /\ Pong({1}))
    \/ PongTimeout
    \/ Cleanup
    \/ (TimersQuiet /\ Settled /\ DisconnectClient)

SpecSweep == Init /\ [][NextSweep]_vars

(***************************************************************************)
(* createOrder, updateOrder and deleteOrder step by step: a call runs to   *)
(* its first await when it is made, and each await of a settled promise    *)
(* resumes the call from the microtask queue                               *)
(***************************************************************************)
\* what is left of a call: "notify" hands msg to the notifier, "delete" runs
\* repository.delete(id) and then notifies msg
Continuation(step, id, msg) == [step |-> step, id |-> id, msg |-> msg]

\* a store mutation as it was executed
Mutation(kind, order) == [kind |-> kind, id |-> order.id, order |-> order]

\* a microtask queue that runs the newest job first
Enqueue_NewestFirst(queue, k) == <<k>> \o queue

\* await: the continuation joins the microtask queue behind the jobs in it
Enqueue(queue, k) == Append(queue, k)

\* ids generateOrderId has handed out: made of the time and a random number,
\* it does not hand out an id twice
UsedIds == {applied[i].id : i \in {j \in 1..Len(applied) : applied[j].kind = "create"}}

\* a coordinator call that rejects in its synchronous part
CallRejected ==
    /\ lastError' = HandleError(now)
    /\ UNCHANGED <<orders, now, lastCall, config, sessVars, wireVars, lastRead,
                   liveVars, taskVars>>

\* createOrder up to "await this.repository.create(order)"
CreateOrderStart(ids, inputs) ==
    \E id \in ids \ UsedIds, orderData \in inputs :
        LET order == Order(id, orderData.address, orderData.status,
                           orderData.collectorName, now)
            created == RepoCreate(orders, order, now)
        IN  IF created.threw
            THEN CallRejected
            ELSE /\ orders' = created.store
                 /\ applied' = Append(applied, Mutation("create", created.ret[1]))
                 /\ tasks' = Enqueue(tasks, Continuation("notify", id,
                                          NotifyOrderCreated(created.ret[1])))
                 /\ UNCHANGED <<now, lastError, lastCall, config, sessVars,
                                wireVars, lastRead, liveVars, emitted>>

\* updateOrder up to "await this.repository.update(id, updateData)"; for an
\* absent id the rest of the call only logs
UpdateOrderStart(ids, inputs) ==
    \E id \in ids, updateData \in inputs :
        IF id = NoId \/ updateData.keys = {}
        THEN CallRejected
        ELSE LET updated == RepoUpdate(orders, id, updateData, now)
             IN  /\ updated.ret # <<>>
                 /\ orders' = updated.store
                 /\ applied' = Append(applied, Mutation("update", updated.ret[1]))
                 /\ tasks' = Enqueue(tasks, Continuation("notify", id,
                                          NotifyOrderUpdated(updated.ret[1])))
                 /\ UNCHANGED <<now, lastError, lastCall, config, sessVars,
                                wireVars, lastRead, liveVars, emitted>>

\* deleteOrder up to "await this.repository.findById(id)"; for an absent id
\* the rest of the call only returns false
DeleteOrderStart(ids) ==
    \E id \in ids :
        IF id = NoId
        THEN CallRejected
        ELSE LET order == RepoFindById(orders, id)
             IN  /\ order # <<>>
                 /\ tasks' = Enqueue(tasks, Continuation("delete", id,
                                          NotifyOrderDeleted(order[1])))
                 /\ UNCHANGED <<storeVars, now, config, sessVars, wireVars,
                                lastRead, liveVars, emitted, applied>>

\* the microtask at the head of the queue runs: a call resumes after its
\* await and goes on to its next one
RunMicrotask ==
    /\ tasks # <<>>
    /\ LET k == Head(tasks)
       IN  IF k.step = "notify"
           THEN /\ emitted' = Append(emitted, k.msg)
                /\ wire' = DeliverWire(wire, <<k.msg>>)
                /\ clientOrders' = DeliverClients(clientOrders, <<k.msg>>)
                /\ tasks' = Tail(tasks)
                /\ UNCHANGED <<storeVars, applied>>
           ELSE LET deleted == RepoDelete(orders, k.id)
                IN  /\ orders' = deleted.store
                    /\ applied' = IF deleted.existed
                                  THEN Append(applied, Mutation("delete", k.msg.data))
                                  ELSE applied
                    /\ tasks' = IF deleted.existed
                                THEN Enqueue(Tail(tasks),
                                             Continuation("notify", k.id, k.msg))
                                ELSE Tail(tasks)
                    /\ UNCHANGED <<lastError, lastCall, wireVars, emitted>>
    /\ UNCHANGED <<now, config, sessVars, lastRead, liveVars>>

\* updates that can be told apart
OverlapUpdates ==
    {[keys |-> k, vals |-> UpdateVals] : k \in {{}, {"status"}, {"address", "collectorName"}}}

CallsOpen == Len(applied) + Len(tasks) < MaxCalls

\* calls are made while earlier ones are still waiting
NextOverlap ==
    \/ Tick(1, MaxClock)
    \/ (CallsOpen /\ CreateOrderStart(OrderIds, OrderDataInputs))
    \/ (CallsOpen /\ UpdateOrderStart(OrderIds, OverlapUpdates))
    \/ (CallsOpen /\ DeleteOrderStart(OrderIds \cup {NoId}))
    \/ RunMicrotask

SpecOverlap == Init /\ [][NextOverlap]_vars

\* stores for the queries: each id with the address and collector of a
\* created (odd ids) or an updated (even ids) order
QueryOrders ==
    {Order(id, IF id[2] % 2 = 1 THEN "Main St" ELSE "Oak Ave", status,
           IF id[2] % 2 = 1 THEN "Juan" ELSE "Ana", t) :
        id \in OrderIds, status \in StatusInputs, t \in 0..MaxClock}

QueryStores ==
    {store \in UNION {[1..n -> QueryOrders] : n \in 0..MaxIds} :
        \A i, j \in 1..Len(store) : store[i].id = store[j].id => i = j}

SearchInputs ==
    {NoSearch, <<"O", "A", "K">>, <<"o", "r", "d", "-", "1">>, <<"j", "u">>}

FilterInputs ==
    {Filters(status, search) : status \in {NoStatus, "pending"}, search \in SearchInputs}

SortInputs ==
    {<<NoSort, NoSort>>, <<"lastUpdated", "desc">>, <<"lastUpdated", "asc">>,
     <<"status", NoSort>>}

PaginationInputs ==
    {NoPagination} \cup
    {Pagination(page, limit, sort[1], sort[2]) :
        page \in 1..MaxIds, limit \in 0..MaxIds, sort \in SortInputs}

QueryRequests ==
    {ReadRequest("findByFilters", [filters |-> f, pagination |-> p]) :
        f \in FilterInputs, p \in PaginationInputs}

RouteRequests ==
    {ReadRequest("getOrders", RawQuery(f, page, limit, sort[1], sort[2])) :
        f \in {NoFilters, Filters("pending", NoSearch)},
        page \in {<<>>, <<0>>, <<1>>},
        limit \in {<<>>, <<0>>, <<1>>},
        sort \in SortInputs}

\* one query over an unchanged store
InitQuery ==
    \E store \in QueryStores, read \in QueryRequests \cup RouteRequests :
        InitRead(DefaultConfig, store, read)

NextQuery ==
    \/ FindByFiltersRead
    \/ GetOrdersRead

SpecQuery == InitQuery /\ [][NextQuery]_vars

(***************************************************************************)
(* Properties                                                              *)
(***************************************************************************)
\* a step in which a coordinator call changed something its caller can see
CallStep == storeVars' # storeVars

EventKind(op) ==
    CASE op = "createOrder" -> "order-created"
      [] op = "updateOrder" -> "order-update"
      [] op = "deleteOrder" -> "order-deleted"
      [] OTHER -> "none"

SingleOps == {"createOrder", "updateOrder", "deleteOrder"}

UniqueIds(store) ==
    \A i, j \in 1..Len(store) : store[i].id = store[j].id => i = j

C2_NotificationFailureSwallowed ==
    lastCall.mutated => ~lastCall.threw

\* C3: stored orders never share an id, and a create whose id is already
\* stored rejects and leaves the store as it was.
C3_UniqueIds ==
    [][/\ UniqueIds(orders')
       /\ (CallStep /\ lastCall'.op = "createOrder" /\ MapHas(orders, lastCall'.id))
            => (lastCall'.threw /\ orders' = orders)]_vars

\* C3 witness: a create was rejected while its id was in the store.
C3_Witness ==
    /\ lastCall.op = "createOrder"
    /\ lastCall.threw
    /\ ~lastCall.mutated
    /\ MapHas(orders, lastCall.id)
    /\ Len(orders) = 2

\* a step in which the server handled a message from connected socket sid
MessageStep(sid) ==
    /\ sid \in DOMAIN sockets
    /\ sid \in DOMAIN sockets'
    /\ lastAck'.sid = sid
    /\ (lastAck' # lastAck \/ sockets'[sid] # sockets[sid])

OrderEvents == {"order-created", "order-update", "order-deleted"}

RateErrors ==
    {"Client is temporarily blocked",
     "Rate limit exceeded. Client temporarily blocked."}

ErrorAcks ==
    RateErrors \cup {"Invalid message format", "Authentication required",
                     "Unknown message type"}

\* C4 (as claimed): every connected socket, which is one that passed origin
\* validation, has been sent an initial-orders snapshot as the first message
\* of its stream, and exactly one.
C4_SnapshotFirst ==
    \A sid \in DOMAIN sockets :
        /\ wire[sid] # <<>>
        /\ wire[sid][1] = "initial-orders"
        /\ \A i \in 2..Len(wire[sid]) : wire[sid][i] # "initial-orders"

\* C5 (as claimed): whenever a connected socket is sent an order change
\* event it is a member of the 'orders' room at that moment, and every
\* connected socket, subscribed or not, is counted as connected.
C5_OnlySubscribersReceive ==
    [][/\ \A sid \in DOMAIN wire \cap DOMAIN wire' :
            (/\ Len(wire'[sid]) > Len(wire[sid])
             /\ wire'[sid][Len(wire'[sid])] \in OrderEvents) => sid \in room
       /\ DOMAIN sockets' \subseteq connectedClients']_vars

\* C6: a message from a socket that is not blocked and has had fewer than 30
\* messages counted in its current 60-second window is accepted and counted;
\* the message after the 30th in the same window is rejected and blocks the
\* socket; a message from a blocked socket arriving once the block duration
\* has passed since the message that blocked it is accepted and leaves the
\* counter at 1.
C6_AdmissionWindow ==
    [][\A sid \in DOMAIN sockets :
        MessageStep(sid) =>
            LET pre == sockets[sid]
                post == sockets'[sid]
                inWindow == now - pre.lastReset <= WindowMs
                accepted == lastAck'.ack \notin RateErrors
            IN  /\ (~pre.isBlocked /\ inWindow /\ pre.messageCount < MaxMessages)
                     => /\ accepted
                        /\ post.messageCount = pre.messageCount + 1
                        /\ ~post.isBlocked
                /\ (~pre.isBlocked /\ inWindow /\ pre.messageCount = MaxMessages)
                     => /\ ~accepted
                        /\ post.isBlocked
                /\ (pre.isBlocked /\ now >= pre.blockedAt + BlockDurationMs)
                     => /\ accepted
                        /\ post.messageCount = 1
                        /\ ~post.isBlocked]_vars

\* C6 witness: a socket that was blocked by a message over the quota has had
\* a message accepted after the block duration and its counter is 1.
C6_Witness ==
    \E sid \in DOMAIN sockets :
        /\ sockets[sid].blockedAt >= 0
        /\ now >= sockets[sid].blockedAt + BlockDurationMs
        /\ ~sockets[sid].isBlocked
        /\ sockets[sid].messageCount = 1
        /\ lastAck = Ack(sid, Msg("ping", NoKey), "pong")

\* C7 (as claimed): a message from a blocked socket that arrives less than
\* the block duration after the message that blocked it is rejected, and the
\* socket stays blocked.
C7_BlockedForFullDuration ==
    [][\A sid \in DOMAIN sockets :
        (/\ MessageStep(sid)
         /\ sockets[sid].isBlocked
         /\ now < sockets[sid].blockedAt + BlockDurationMs)
            => /\ lastAck'.ack \in RateErrors
               /\ sockets'[sid].isBlocked]_vars

\* the condition under which the code lets a subscribe message join the room
SubscribeGranted(pre, post, data) ==
    /\ ~post.isBlocked
    /\ Len(data.apiKey) >= ApiKeyMinLen
    /\ (pre.isAuthenticated \/ data.apiKey = config.apiKey)

\* C8 (as claimed): a subscribe message from a socket that is already
\* authenticated, or carrying the configured secret of at least 8
\* characters, puts the socket in the 'orders' room; any other subscribe
\* message gets an error acknowledgment, leaves the room membership as it
\* was and leaves the socket connected.
C8_SubscribeAsClaimed ==
    [][\A sid \in DOMAIN sockets :
        (MessageStep(sid) /\ lastAck'.data.type = "subscribe") =>
            LET pre == sockets[sid]
                key == lastAck'.data.apiKey
            IN  IF \/ pre.isAuthenticated
                   \/ (key = config.apiKey /\ Len(key) >= ApiKeyMinLen)
                THEN sid \in room'
                ELSE /\ lastAck'.ack \in ErrorAcks
                     /\ (sid \in room') = (sid \in room)
                     /\ socketOf' = socketOf]_vars

\* C8 (amended): a subscribe message puts the socket in the 'orders' room,
\* with a success acknowledgment, exactly when the rate limiter admits it,
\* it carries an apiKey of at least 8 characters, and the socket is already
\* authenticated or that apiKey equals the configured secret; any other
\* subscribe message gets an error acknowledgment, leaves the room
\* membership as it was and leaves the socket connected.
C8_SubscribeNeedsKeyField ==
    [][\A sid \in DOMAIN sockets :
        (MessageStep(sid) /\ lastAck'.data.type = "subscribe") =>
            IF SubscribeGranted(sockets[sid], sockets'[sid], lastAck'.data)
            THEN /\ sid \in room'
                 /\ lastAck'.ack = "success"
                 /\ sockets'[sid].isAuthenticated
            ELSE /\ lastAck'.ack \in ErrorAcks
                 /\ (sid \in room') = (sid \in room)
                 /\ sockets'[sid].isAuthenticated = sockets[sid].isAuthenticated
                 /\ socketOf' = socketOf]_vars

\* C8 witness: with a secret configured, a subscribe carrying it put the
\* socket in the room.
C8_Witness ==
    /\ config.apiKey = GoodKey
    /\ lastAck.data = Msg("subscribe", GoodKey)
    /\ lastAck.ack = "success"
    /\ lastAck.sid \in room
    /\ sockets[lastAck.sid].isAuthenticated

\* C9: when a disconnected client connects again, its new socket is sent
\* the snapshot and nothing else, and the list the client then holds is the
\* current store: every order it held before that is still stored is in it,
\* as stored, with no event replayed.
C9_ReconnectSeesCurrentPage ==
    [][\A c \in Clients :
        (socketOf[c] = 0 /\ socketOf'[c] # 0) =>
            /\ wire'[socketOf'[c]] = <<"initial-orders">>
            /\ clientOrders'[c] = orders
            /\ \A i \in 1..Len(clientOrders[c]) :
                  LET id == clientOrders[c][i].id
                  IN  MapHas(orders, id) =>
                        MapGet(clientOrders'[c], id) = MapGet(orders, id)]_vars

\* C9 witness: order 21 was created with its event sent out, and the client,
\* on its second socket, has been sent only the snapshot and holds the 20
\* sample orders and order 21.
C9_Witness ==
    /\ socketOf[1] = 2
    /\ wire[2] = <<"initial-orders">>
    /\ lastCall.op = "createOrder"
    /\ lastCall.id = <<"ORD", SampleCount + 1>>
    /\ Len(lastCall.notified) = 1
    /\ Len(clientOrders[1]) = SampleCount + 1
    /\ MapHas(clientOrders[1], <<"ORD", SampleCount + 1>>)

\* the latest read was of kind op and has been answered
ReadDone(op) == lastRead.op = op /\ lastRead.done

\* text contains term, letter case aside
ContainsIgnoreCase(text, term) ==
    \E k \in 0..(Len(text) - Len(term)) :
        \A j \in 1..Len(term) : LowerChar(text[k + j]) = LowerChar(term[j])

\* order passes the status filter and the search filter, where given
MatchesFilters(order, filters) ==
    /\ filters.status # NoStatus => order.status = filters.status
    /\ filters.search # NoSearch =>
          \/ ContainsIgnoreCase(IdChars(order.id), filters.search)
          \/ ContainsIgnoreCase(Chars(order.collectorName), filters.search)
          \/ ContainsIgnoreCase(Chars(order.address), filters.search)

Matching(store, filters) ==
    {store[i] : i \in {k \in 1..Len(store) : MatchesFilters(store[k], filters)}}

\* list holds each order of set exactly once and nothing else
ListsExactly(list, set) ==
    /\ \A o \in set : Cardinality({i \in 1..Len(list) : list[i] = o}) = 1
    /\ \A i \in 1..Len(list) : list[i] \in set

\* list keeps the order its elements have in the store
InStoreOrder(list, store) ==
    \A i, j \in 1..Len(list) :
        i < j => MapIndex(store, list[i].id) < MapIndex(store, list[j].id)

\* list is ordered by the sort field in the sort direction, equal values in
\* store order; without a sort field it is in store order
InSortOrder(list, store, sortBy, sortOrder) ==
    \A i, j \in 1..Len(list) :
        i < j =>
            LET a == SortValue(list[i], sortBy)
                b == SortValue(list[j], sortBy)
            IN  IF sortBy = NoSort \/ a = b
                THEN MapIndex(store, list[i].id) < MapIndex(store, list[j].id)
                ELSE IF sortOrder = "desc" THEN a > b ELSE a < b

\* the items of pages 1..n of a query, one after the other
RECURSIVE PagesUpTo(_, _, _, _)
PagesUpTo(store, filters, pg, n) ==
    IF n = 0 THEN <<>>
    ELSE PagesUpTo(store, filters, pg, n - 1)
         \o FindByFilters(store, filters, <<[pg EXCEPT !.page = n]>>).data

\* C11: for a findByFilters query with a page size above 0, totalPages is a
\* number, the items of pages 1..totalPages taken one after the other hold
\* every stored order that passes the filters exactly once and nothing else,
\* in sort order, and the page that was answered is its part of that list.
C11_PagesPartitionFilteredSet ==
    (/\ ReadDone("findByFilters")
     /\ lastRead.args.pagination # NoPagination
     /\ lastRead.args.pagination[1].limit > 0) =>
        LET f == lastRead.args.filters
            pg == lastRead.args.pagination[1]
            r == lastRead.result[1]
            all == PagesUpTo(orders, f, pg, r.totalPages.n)
        IN  /\ r.totalPages.kind = "finite"
            /\ ListsExactly(all, Matching(orders, f))
            /\ InSortOrder(all, orders, pg.sortBy, pg.sortOrder)
            /\ r.data = Slice(all, (pg.page - 1) * pg.limit, pg.page * pg.limit)

\* C11 witness: the second of two pages of one order each, sorted by
\* lastUpdated descending, of a store whose insertion order is ascending.
C11_Witness ==
    /\ ReadDone("findByFilters")
    /\ lastRead.args.pagination =
          Pagination(2, 1, "lastUpdated", "desc")
    /\ lastRead.args.filters = NoFilters
    /\ Len(orders) = 2
    /\ orders[1].lastUpdated < orders[2].lastUpdated
    /\ lastRead.result[1].totalPages = Finite(2)
    /\ lastRead.result[1].data = <<orders[1]>>

\* C13: findByFilters reports as total the number of stored orders that
\* have the filter's status (when given) and whose id, collectorName or
\* address contains the search text, letter case aside (when given),
\* whatever page is asked for; its items are among those orders, and are
\* all of them, each once, when no pagination is given.
C13_FilterSemantics ==
    ReadDone("findByFilters") =>
        LET f == lastRead.args.filters
            r == lastRead.result[1]
        IN  /\ r.total = Cardinality(Matching(orders, f))
            /\ \A i \in 1..Len(r.data) : r.data[i] \in Matching(orders, f)
            /\ lastRead.args.pagination = NoPagination =>
                  ListsExactly(r.data, Matching(orders, f))

\* C13 witness: a search that only a collector name matches, together with
\* a status filter, picked one of two stored orders.
C13_Witness ==
    /\ ReadDone("findByFilters")
    /\ lastRead.args.filters = Filters("pending", <<"j", "u">>)
    /\ lastRead.args.pagination = NoPagination
    /\ Len(orders) = 2
    /\ orders[1].status = "pending"
    /\ orders[2].collectorName = "Juan"
    /\ lastRead.result[1].total = 1
    /\ lastRead.result[1].data = <<orders[2]>>

BulkOps == {"createMultipleOrders", "updateMultipleOrders", "deleteMultipleOrders"}

ListedIds(list) == {list[k].id : k \in 1..Len(list)}

\* C16: a bulk call on a non-empty list does not throw and treats every
\* element on its own.  createMany stores, in list order, each element whose
\* id is neither stored nor listed earlier, and returns exactly those;
\* updateMany updates every element whose id is stored, returns one order
\* per such element in list order, and leaves orders that are not listed as
\* they were; deleteMany removes every listed id that is stored, returns
\* their number, and leaves the other orders as they were.
C16_BulkBestEffort ==
    [][(CallStep /\ lastCall'.op \in BulkOps /\ lastCall'.list # <<>>) =>
        LET c == lastCall'
            L == c.list
        IN  /\ ~c.threw
            /\ c.op = "createMultipleOrders" =>
                  LET ok == {k \in 1..Len(L) :
                               /\ ~MapHas(orders, L[k].id)
                               /\ \A j \in 1..(k - 1) : L[j].id # L[k].id}
                  IN  /\ Len(c.ret) = Cardinality(ok)
                      /\ orders' = orders \o c.ret
                      /\ \A k \in ok :
                            MapGet(c.ret, L[k].id) =
                              <<Order(L[k].id, L[k].data.address, L[k].data.status,
                                      L[k].data.collectorName, now)>>
                      /\ \A k1, k2 \in ok :
                            k1 < k2 => MapIndex(c.ret, L[k1].id) < MapIndex(c.ret, L[k2].id)
            /\ c.op = "updateMultipleOrders" =>
                  /\ [n \in 1..Len(c.ret) |-> c.ret[n].id] =
                        SelectSeq([k \in 1..Len(L) |-> L[k].id],
                                  LAMBDA id : MapHas(orders, id))
                  /\ Len(orders') = Len(orders)
                  /\ \A i \in 1..Len(orders) :
                        /\ orders'[i].id = orders[i].id
                        /\ orders[i].id \notin ListedIds(L) => orders'[i] = orders[i]
                  /\ \A k \in 1..Len(L) :
                        MapHas(orders, L[k].id) =>
                          LET new == orders'[MapIndex(orders, L[k].id)]
                          IN  /\ new.lastUpdated = now
                              /\ \A f \in L[k].data.keys \ {"id", "lastUpdated"} :
                                    new[f] = L[k].data.vals[f]
            /\ c.op = "deleteMultipleOrders" =>
                  /\ c.count = Cardinality({i \in 1..Len(orders) :
                                              orders[i].id \in ListedIds(L)})
                  /\ orders' = SelectSeq(orders,
                                LAMBDA o : o.id \notin ListedIds(L))]_vars

\* C16 witness: createMultipleOrders was given an id that was stored and
\* then a new one; only the new one was created and returned.
C16_Witness ==
    /\ lastCall.op = "createMultipleOrders"
    /\ Len(lastCall.list) = 2
    /\ lastCall.list[1].id # lastCall.list[2].id
    /\ ~lastCall.threw
    /\ Len(lastCall.ret) = 1
    /\ lastCall.ret[1].id = lastCall.list[2].id
    /\ Len(orders) = 2
    /\ orders[1].id = lastCall.list[1].id

\* C17 (as claimed): a bulk operation hands the notifier one message of the
\* matching kind per order it mutated: as many as the orders createMany or
\* updateMany returned, and as many order-deleted messages as the count
\* deleteMany returned.
C17_OneEventPerBulkMutation ==
    lastCall.op \in BulkOps =>
        /\ \A i \in 1..Len(lastCall.notified) :
              lastCall.notified[i].type =
                (CASE lastCall.op = "createMultipleOrders" -> "order-created"
                   [] lastCall.op = "updateMultipleOrders" -> "order-update"
                   [] OTHER -> "order-deleted")
        /\ Len(lastCall.notified) =
              IF lastCall.op = "deleteMultipleOrders" THEN lastCall.count
              ELSE Len(lastCall.ret)

RECURSIVE SumOver(_, _)
SumOver(stats, keys) ==
    IF keys = {} THEN 0
    ELSE LET k == CHOOSE x \in keys : TRUE
         IN  stats[k] + SumOver(stats, keys \ {k})

\* C12: in every reachable store state countByStatus has exactly the five
\* status keys, each value is a natural number, and the values add up to
\* getTotalCount.
C12_StatsCoverStore ==
    LET stats == CountByStatus(orders)
    IN  /\ DOMAIN stats = OrderStatus
        /\ \A status \in DOMAIN stats : stats[status] \in Nat
        /\ SumOver(stats, DOMAIN stats) = GetTotalCount(orders)

\* C12 witness: a store of two orders of different statuses after a bulk
\* update, counted one each.
C12_Witness ==
    /\ lastCall.op = "updateMultipleOrders"
    /\ lastCall.mutated
    /\ GetTotalCount(orders) = 2
    /\ CountByStatus(orders)["pending"] = 1
    /\ CountByStatus(orders)["completed"] = 1
    /\ CountByStatus(orders)["cancelled"] = 0

\* the query names no sort field
NoSortField(pagination) == pagination = NoPagination \/ pagination[1].sortBy = NoSort

\* C14 (as claimed): the items of a findByFilters query that names no sort
\* field are in descending order of lastUpdated.
C14_DefaultSortAsClaimed ==
    (ReadDone("findByFilters") /\ NoSortField(lastRead.args.pagination)) =>
        LET data == lastRead.result[1].data
        IN  \A i, j \in 1..Len(data) :
                i < j => data[i].lastUpdated >= data[j].lastUpdated

\* C14 (amended): the items of a findByFilters query that names no sort
\* field are in the store's insertion order; the items of a GET /orders
\* request that names no sort field are in descending order of lastUpdated,
\* equal values in insertion order, because the route's query schema fills
\* in sortBy = lastUpdated (and sortOrder = desc when that is absent too)
\* before findByFilters is called.
C14_DefaultSortIsTheRoutes ==
    /\ (ReadDone("findByFilters") /\ NoSortField(lastRead.args.pagination)) =>
          InStoreOrder(lastRead.result[1].data, orders)
    /\ (/\ ReadDone("getOrders")
        /\ lastRead.args.sortBy = NoSort
        /\ lastRead.result # <<<<>>>>) =>
          InSortOrder(lastRead.result[1][1].data, orders, "lastUpdated",
                      IF lastRead.args.sortOrder = NoSort THEN "desc"
                      ELSE lastRead.args.sortOrder)

\* C14 witness: GET /orders without any sort parameter answered with two
\* orders, the later updated first, from a store that holds them the other
\* way round.
C14_Witness ==
    /\ ReadDone("getOrders")
    /\ lastRead.args.sortBy = NoSort
    /\ lastRead.args.sortOrder = NoSort
    /\ lastRead.args.limit = <<>>
    /\ Len(orders) = 2
    /\ orders[1].lastUpdated < orders[2].lastUpdated
    /\ lastRead.result # <<<<>>>>
    /\ lastRead.result[1][1].data = <<orders[2], orders[1]>>

\* the least number of pages of limit items that hold total items
PagesNeeded(total, limit) ==
    CHOOSE k \in 0..total : k * limit >= total /\ \A m \in 0..total : m * limit >= total => k <= m

\* C15 (as claimed): totalPages is ceil(total / limit) when the page size is
\* above 0; when the page size is 0 or pagination is absent, totalPages is 1
\* and the items are the whole filtered set.
C15_TotalPages ==
    ReadDone("findByFilters") =>
        LET pg == lastRead.args.pagination
            r == lastRead.result[1]
        IN  IF pg # NoPagination /\ pg[1].limit > 0
            THEN r.totalPages = Finite(PagesNeeded(r.total, pg[1].limit))
            ELSE /\ r.totalPages = Finite(1)
                 /\ Len(r.data) = r.total

\* C10: an update of a stored order changes only the fields its partial
\* input names and lastUpdated; the id stays the stored id even when the
\* input names another one, the named fields take the given values,
\* lastUpdated becomes the current time, and every other order keeps its
\* value and its place.
C10_UpdateFrame ==
    [][(CallStep /\ lastCall'.op = "updateOrder" /\ lastCall'.mutated) =>
        LET c == lastCall'
            k == MapIndex(orders, c.id)
        IN  /\ MapHas(orders, c.id)
            /\ Len(orders') = Len(orders)
            /\ \A i \in 1..Len(orders) : i # k => orders'[i] = orders[i]
            /\ orders'[k].id = c.id
            /\ orders'[k].lastUpdated = now
            /\ \A f \in {"address", "status", "collectorName"} :
                  orders'[k][f] = IF f \in c.keys THEN UpdateVals[f] ELSE orders[k][f]
            /\ c.stored = <<orders'[k]>>]_vars

\* C10 witness: an update naming another id and a new status was applied to
\* one of two stored orders.
C10_Witness ==
    /\ lastCall.op = "updateOrder"
    /\ lastCall.mutated
    /\ lastCall.keys = {"id", "status"}
    /\ Len(orders) = 2
    /\ MapHas(orders, lastCall.id)
    /\ MapGet(orders, lastCall.id)[1].status = "completed"
    /\ MapGet(orders, lastCall.id)[1].address = "Main St"

\* the origins of the handshakes that name localhost with a port
LocalhostWithPort == {DefaultOrigin, OtherLocalhostOrigin}

\* the origins the deployment means to admit: the members of the allow-list
\* and, when the deployment runs in development mode (config.env, which is
\* development when NODE_ENV is unset), localhost with any port
OriginAdmissible(origin) ==
    \/ origin \in config.corsOrigin
    \/ /\ config.nodeEnv \in {NodeEnvUnset, "development"}
       /\ origin \in LocalhostWithPort

\* C18: a connection whose origin is neither a member of the allow-list nor,
\* in development mode, localhost with a port is refused: every socket that
\* opens has an admissible origin, only sockets that open are registered
\* with the notifier and the connection monitor, and a refusal with
\* 'Invalid origin' leaves sockets and both registries as they were.
C18_InadmissibleOriginRefused ==
    [][ /\ \A sid \in DOMAIN sockets' \ DOMAIN sockets :
              OriginAdmissible(sockets'[sid].origin)
        /\ (connectedClients' \cup monitorConns') \ (connectedClients \cup monitorConns)
              \subseteq DOMAIN sockets' \ DOMAIN sockets
        /\ connectedClients' \cup monitorConns' \subseteq DOMAIN sockets'
        /\ (lastAck'.ack = "Invalid origin" /\ lastAck' # lastAck) =>
              UNCHANGED <<sockets, socketOf, nextSid, connectedClients, monitorConns,
                          room, wire>>
      ]_vars

\* a production deployment has refused a connection and holds no session,
\* in a run where no socket was ever opened
C18_Witness ==
    /\ config.nodeEnv = "production"
    /\ lastAck.ack = "Invalid origin"
    /\ nextSid = 1
    /\ sockets = <<>> /\ connectedClients = {} /\ monitorConns = {}

\* the last error of the coordinator is less than ms old
ErrorYoungerThan(ms) ==
    lastError # <<>> /\ now - lastError[1].timestamp < ms

\* C19: getServiceHealth reports unhealthy when the last error is less than
\* 10 seconds old, degraded when it is less than 60 seconds old but not less
\* than 10, healthy otherwise, together with the number of stored orders and
\* the number of sessions connected to the notifier.
C19_HealthReport ==
    lastRead.op = "getServiceHealth" =>
        LET health == lastRead.result[1]
        IN  /\ health.status =
                  (CASE ErrorYoungerThan(UnhealthyAgeMs) -> "unhealthy"
                     [] ErrorYoungerThan(DegradedAgeMs)
                          /\ ~ErrorYoungerThan(UnhealthyAgeMs) -> "degraded"
                     [] OTHER -> "healthy")
            /\ health.totalOrders = Len(orders)
            /\ health.activeConnections = Cardinality(connectedClients)

\* a report taken exactly 10 seconds after a failure, with one order stored
\* and one session connected, says degraded
C19_Witness ==
    /\ lastRead.op = "getServiceHealth"
    /\ lastError # <<>>
    /\ now - lastError[1].timestamp = UnhealthyAgeMs
    /\ lastRead.result[1].status = "degraded"
    /\ Len(orders) = 1
    /\ Cardinality(DOMAIN sockets) = 1

\* C20: findById, update and delete on an id that is not stored return null,
\* null and false without throwing and leave the store as it was.  Seen
\* through the coordinator: updateOrder of an absent id (update) resolves to
\* null, deleteOrder of an absent id (findById) finds no order and resolves
\* to false, and updateMultipleOrders / deleteMultipleOrders of absent ids
\* only (update / delete per element) resolve to no order / the count 0.
C20_AbsentIdIsNotAnError ==
    [][CallStep =>
        LET c == lastCall'
            absent(id) == id # NoId /\ ~MapHas(orders, id)
        IN  /\ (c.op = "updateOrder" /\ c.keys # {} /\ absent(c.id)) =>
                  ~c.threw /\ c.ret = <<>> /\ orders' = orders
            /\ (c.op = "deleteOrder" /\ absent(c.id)) =>
                  ~c.threw /\ c.stored = <<>> /\ ~c.retBool /\ orders' = orders
            /\ (c.op = "updateMultipleOrders" /\ c.list # <<>>
                   /\ \A id \in ListedIds(c.list) : absent(id)) =>
                  ~c.threw /\ c.ret = <<>> /\ orders' = orders
            /\ (c.op = "deleteMultipleOrders" /\ c.list # <<>>
                   /\ \A id \in ListedIds(c.list) : absent(id)) =>
                  ~c.threw /\ c.count = 0 /\ orders' = orders]_vars

\* updateOrder was called with fields for an id that is not stored, while
\* another order is: it resolved to null
C20_Witness ==
    /\ lastCall.op = "updateOrder"
    /\ lastCall.id # NoId
    /\ lastCall.keys # {}
    /\ ~MapHas(orders, lastCall.id)
    /\ orders # <<>>
    /\ ~lastCall.threw
    /\ lastCall.ret = <<>>

\* C23: a message from a blocked socket that arrives before the block expiry
\* the middleware computes (lastReset + blockDurationMs) is answered with
\* 'Client is temporarily blocked' and is not counted: messageCount,
\* lastReset and isBlocked are as they were.
C23_BlockedMessageNotCounted ==
    [][\A sid \in DOMAIN sockets :
        (/\ MessageStep(sid)
         /\ sockets[sid].isBlocked
         /\ now < sockets[sid].lastReset + BlockDurationMs)
            => /\ lastAck'.ack = "Client is temporarily blocked"
               /\ sockets'[sid].messageCount = sockets[sid].messageCount
               /\ sockets'[sid].lastReset = sockets[sid].lastReset
               /\ sockets'[sid].isBlocked
               /\ sockets'[sid] = sockets[sid]
               /\ room' = room]_vars

\* a blocked socket, its counter one past the quota, has just had a message
\* rejected as temporarily blocked some time after the block began
C23_Witness ==
    \E sid \in DOMAIN sockets :
        /\ sockets[sid].isBlocked
        /\ sockets[sid].messageCount = MaxMessages + 1
        /\ now > sockets[sid].blockedAt
        /\ now < sockets[sid].lastReset + BlockDurationMs
        /\ lastAck = Ack(sid, Msg("ping", NoKey), "Client is temporarily blocked")

\* how many of the entries of admitted lie within the WindowMs up to t
RECURSIVE AdmittedSince(_, _)
AdmittedSince(admitted, t) ==
    IF admitted = <<>> THEN 0
    ELSE (IF Head(admitted).at > t - WindowMs THEN Head(admitted).n ELSE 0)
         + AdmittedSince(Tail(admitted), t)

\* C24 (as claimed): the quota is a sliding window: for every socket, the
\* messages the rate limiter let through within the 60 seconds up to any
\* moment number at most 30.
C24_SlidingWindowQuota ==
    \A sid \in DOMAIN sockets :
        AdmittedSince(sockets[sid].admitted, now) <= MaxMessages

\* C29: a socket is in the 'orders' room only if it is authenticated, and a
\* socket that is authenticated stays authenticated for as long as it is
\* connected, whatever message it sends and whether or not it gets blocked.
C29_RoomImpliesAuthenticated ==
    [][ /\ \A sid \in room' :
              sid \in DOMAIN sockets' /\ sockets'[sid].isAuthenticated
        /\ \A sid \in DOMAIN sockets \cap DOMAIN sockets' :
              sockets[sid].isAuthenticated => sockets'[sid].isAuthenticated
      ]_vars

\* with a secret configured, a socket that authenticated by subscribing has
\* left the room again, sent messages until it was blocked, and is still
\* authenticated
C29_Witness ==
    \E sid \in DOMAIN sockets :
        /\ config.apiKey = GoodKey
        /\ sockets[sid].isAuthenticated
        /\ sockets[sid].isBlocked
        /\ sid \notin room
        /\ lastAck.sid = sid
        /\ lastAck.ack \in RateErrors

\* C28 (as claimed): applying an event at the client is idempotent: an
\* order-update or order-deleted for an id the list does not hold leaves the
\* list as it was, applying the event just applied once more changes
\* nothing, order-created included, and the list holds no id twice.
C28_ClientEventsIdempotent ==
    [][(lastRead'.op = "clientEvent"
          /\ lastRead'.args.type # "initial-orders"
          /\ (lastRead' # lastRead \/ clientOrders' # clientOrders)) =>
        LET m == WsMessage(lastRead'.args.type, lastRead'.args.orders[1])
            pre == clientOrders[1]
            post == clientOrders'[1]
        IN  /\ (m.type \in {"order-update", "order-deleted"}
                   /\ ~MapHas(pre, m.data.id)) => post = pre
            /\ ApplyMessage(post, m) = post
            /\ UniqueIds(pre) => UniqueIds(post)]_vars

\* socket sid is connected and the timeout has passed since a ping it has
\* not answered
ProbeOverdue(sid) ==
    /\ sid \in DOMAIN probes
    /\ \E i \in 1..Len(probes[sid]) : probes[sid][i] + config.pingTimeout <= now

\* socket sid was disconnected and is in no registry
SessionClosed(sid) ==
    /\ sid \in DOMAIN closed
    /\ sid \notin DOMAIN sockets
    /\ sid \notin connectedClients
    /\ sid \notin monitorConns

\* C21: a socket that has left a ping unanswered for the ping timeout is
\* eventually disconnected and removed from the notifier's and the
\* connection monitor's registries.
C21_UnansweredPingCloses ==
    \A sid \in 1..MaxSockets : ProbeOverdue(sid) ~> SessionClosed(sid)

\* a socket was disconnected by its pong timeout and is in no registry
C21_Witness ==
    \E sid \in DOMAIN closed :
        /\ closed[sid] = "heartbeat"
        /\ SessionClosed(sid)
        /\ socketOf[1] = 0

\* C22 (as claimed): the heartbeat disconnects a socket only if the socket
\* has left some ping unanswered for the ping timeout; a socket that answers
\* every ping within the timeout is not disconnected by it, whether the
\* interval is longer or shorter than the timeout.
C22_TimelyPongsKeepSession ==
    [][\A sid \in DOMAIN closed' \ DOMAIN closed :
          closed'[sid] = "heartbeat" => ProbeOverdue(sid)]_vars

\* the time of the last message of a session that was let through, the time
\* of its connection if there was none
LastActive(sock) ==
    IF sock.admitted = <<>> THEN sock.connectedAt
    ELSE sock.admitted[Len(sock.admitted)].at

IdleTooLong(sock, t) == t - LastActive(sock) > MaxAgeMs

\* blocked, and a block duration past the end of the block as the rate limiter
\* computes it
BlockedTooLong(sock, t) ==
    sock.isBlocked /\ t > (sock.lastReset + BlockDurationMs) + BlockDurationMs

\* C26: a sweep evicts a session only if it has been idle for more than 24
\* hours or has stayed blocked for more than 5 minutes past its block expiry;
\* every session it evicts is closed, and its count counts each of them once.
C26_SweepEvictsIdleOrStaleBlocked ==
    [][lastSweep' # lastSweep =>
          /\ \A sid \in lastSweep'.evicted :
                 IdleTooLong(sockets[sid], now) \/ BlockedTooLong(sockets[sid], now)
          /\ \A sid \in lastSweep'.evicted : SessionClosed(sid)'
          /\ lastSweep'.cleanedCount = Cardinality(lastSweep'.evicted)]_vars

\* the parts of C26, one at a time
SweepEvictsOnlyIdle ==
    [][lastSweep' # lastSweep =>
          \A sid \in lastSweep'.evicted :
              ~sockets[sid].isBlocked => IdleTooLong(sockets[sid], now)]_vars

SweepEvictsOnlyStaleBlocked ==
    [][lastSweep' # lastSweep =>
          \A sid \in lastSweep'.evicted :
              now - sockets[sid].connectedAt <= MaxAgeMs
                  => BlockedTooLong(sockets[sid], now)]_vars

SweepCountsOnce ==
    [][lastSweep' # lastSweep =>
          lastSweep'.cleanedCount = Cardinality(lastSweep'.evicted)]_vars

SweepClosesEvicted ==
    [][lastSweep' # lastSweep =>
          \A sid \in lastSweep'.evicted : SessionClosed(sid)']_vars

\* C25: a session that was closed, by the client, by a heartbeat timeout, by
\* the sweep or by disconnectClient, is in neither the connection monitor's
\* map nor the notifier's map of connected clients, in every later state;
\* and every session that ends is closed in this sense.
C25_ClosedSessionsStayRemoved ==
    [][/\ DOMAIN closed \subseteq DOMAIN closed'
       /\ \A sid \in DOMAIN closed' : SessionClosed(sid)'
       /\ \A sid \in DOMAIN sockets \ DOMAIN sockets' : sid \in DOMAIN closed']_vars

\* a session evicted by the sweep stays out while a later session is open
C25_Witness ==
    /\ 1 \in DOMAIN closed
    /\ closed[1] = "sweep"
    /\ 2 \in monitorConns
    /\ 2 \in connectedClients

\* each way of closing a session happens
ClosedBy(by) == \E sid \in DOMAIN closed : closed[sid] = by

\* C30: the connection monitor and the notifier hold the same sessions, so
\* the total of getConnectionStats, which GET /health reports, is the
\* activeConnections of getServiceHealth.
C30_MonitorEqualsNotifier ==
    /\ monitorConns = connectedClients
    /\ GetConnectionStats(sockets, monitorConns).total
           = GetServiceHealth(orders, connectedClients, lastError, now).activeConnections

\* a session is open after another was disconnected by disconnectClient and
\* a sweep has run
C30_Witness ==
    /\ ClosedBy("disconnectClient")
    /\ lastSweep # NoSweep
    /\ monitorConns # {}

\* the events of one order, in the order of their emission
EmittedFor(id) == SelectSeq(emitted, LAMBDA m : m.data.id = id)

\* the mutations of one order, in the order of their execution
AppliedFor(id) == SelectSeq(applied, LAMBDA a : a.id = id)

EventOf(kind) ==
    CASE kind = "create" -> "order-created"
      [] kind = "update" -> "order-update"
      [] kind = "delete" -> "order-deleted"

\* the events e are, one by one, those of the first mutations of a; an
\* order-created or order-update carries the order its mutation stored
FollowsStore(e, a) ==
    /\ Len(e) <= Len(a)
    /\ \A i \in 1..Len(e) :
          /\ e[i].type = EventOf(a[i].kind)
          /\ a[i].kind # "delete" => e[i].data = a[i].order

\* C27: for each order id the events emitted so far are those of the
\* mutations applied to the store, in the order of their application, also
\* while calls for the id overlap: order-created comes before every
\* order-update and order-deleted of the id, the payloads of successive
\* order-updates are the successive stored states, and nothing follows
\* order-deleted.
C27_EventsFollowStoreOrder ==
    \A id \in OrderIds :
        LET e == EmittedFor(id)
        IN  /\ FollowsStore(e, AppliedFor(id))
            /\ \A i \in 1..Len(e) :
                  e[i].type # "order-created" => e[1].type = "order-created"
            /\ \A i \in 1..Len(e) : e[i].type = "order-deleted" => i = Len(e)

\* a deleteOrder waits at its first await with an updateOrder of the same id,
\* made after it, waiting behind it, and both end with their events emitted
DeleteOverlappedByUpdate ==
    /\ Len(tasks) >= 2
    /\ tasks[1].step = "delete"
    /\ tasks[2].step = "notify"
    /\ tasks[2].msg.type = "order-update"
    /\ tasks[1].id = tasks[2].id

C27_Witness ==
    /\ tasks = <<>>
    /\ \E id \in OrderIds :
          LET e == EmittedFor(id)
          IN  /\ Len(e) = 4
              /\ e[2].type = "order-update"
              /\ e[3].type = "order-update"
              /\ e[2].data # e[3].data
              /\ e[4].type = "order-deleted"
              /\ e[4].data = e[2].data

====
